---- MODULE Spec2Model ----
(***************************************************************************)
(* State machine of the kanban StateManager (src/src/StateManager.ts) and  *)
(* of the UI handlers that mutate the board through it.                    *)
(*                                                                         *)
(* Conventions                                                             *)
(*   - JS `undefined`/`null` records are the one-field records Undefined   *)
(*     and Null; an undefined setting value is the string Undef.           *)
(*   - indices recorded by the code (paths, undo locations) are 0-based as *)
(*     in the source; sequences are 1-based, so index i is element i + 1.  *)
(*   - op, delivered, written and escaped describe the last operation:     *)
(*     its name, the boards handed to the state receivers, the texts       *)
(*     handed to view.requestSaveToDisk, and whether an exception left     *)
(*     the manager.                                                        *)
(***************************************************************************)
EXTENDS Naturals, Sequences, FiniteSets, TLC

VARIABLES
    state,              \* this.state : Board | undefined
    compiledSettings,   \* this.compiledSettings
    globalSettings,     \* what getGlobalSettings() returns
    viewSet,            \* this.viewSet
    viewData,           \* view.data of every view
    regPc,              \* position of each view's registerView call
    regBoard,           \* board parsed by newBoard, awaiting view.prerender
    selectedItemId,
    isArchiveOpen, isDoneOpen, isDelegatedOpen,
    isRecurringOpen, isProposalsOpen, isWaitingOpen,
    previousPaneMode,
    lastDeletedBuffer,  \* { item, location } | null
    deletedFromLane,    \* history: id of the lane the buffered card was deleted from
    deletedFromBoard,   \* history: the board as it was when the buffered card was deleted
    archiveAwait,       \* archiveCompletedCards suspended at its await
    menu,               \* item menu opened on a card: its captured item and path
    nextId,             \* instance ids handed out so far
    suppliedSettings,   \* the argument of the last compileSettings(suppliedSettings) call
    emptied,            \* number of onEmpty() invocations
    op, delivered, written, escaped,
    compiledSeen,       \* this.compiledSettings at each call of a state receiver
    notified,           \* keys whose settings notifiers were invoked by the last operation
    events,             \* what the last operation did towards observers and views, in order
    stateReceivers,     \* the functions useState pushed, in order
    settingsNotifiers,  \* the functions useSetting pushed, each with its key
    cleanedUp,          \* the hook instances whose effect cleanup has run
    handlerItem         \* the item captured by the detail pane's keydown handler, or null

paneVars == <<isArchiveOpen, isDoneOpen, isDelegatedOpen,
              isRecurringOpen, isProposalsOpen, isWaitingOpen>>
selVars == <<selectedItemId, previousPaneMode>>
regVars == <<viewSet, regPc, regBoard>>
undoVars == <<lastDeletedBuffer, deletedFromLane, deletedFromBoard>>
mgrVars == <<state, compiledSettings, viewData, nextId>>
outVars == <<op, delivered, written, escaped, compiledSeen, notified, events>>
hookVars == <<stateReceivers, settingsNotifiers, cleanedUp, handlerItem>>
envVars == <<globalSettings, suppliedSettings, emptied, hookVars>>
vars == <<mgrVars, envVars, regVars, selVars, paneVars, undoVars,
          archiveAwait, menu, outVars>>

----
\* Bounds of the model.
MaxErrors == 2
MaxItems == 3
MaxTitleLen == 2
MaxIds == 5

\* Values.
Undefined == [undefined |-> TRUE]
Null == [null |-> TRUE]
Undef == "undefined"
NoSelection == 0

Views == {"v1", "v2"}
VirtualLanes == <<"archive", "done", "delegated", "recurring", "proposals", "waiting">>
VirtualNames == {VirtualLanes[i] : i \in 1..Len(VirtualLanes)}
PaneModes == VirtualNames \cup {"null"}

frontmatterKey == "kanban-plugin"
\* The keys compileSettings fills in, by the way each one is resolved.
OrKeys == {frontmatterKey, "date-trigger", "inline-metadata-position", "time-trigger"}
RawKeys == {"link-date-to-daily-note", "move-dates", "move-tags", "move-task-metadata"}
ToggleKeys == {"show-add-list", "show-archive-all", "show-view-as-markdown",
               "show-board-settings", "show-search", "show-set-view"}
NullishKeys == ToggleKeys \cup {"tag-colors", "tag-sort", "date-colors", "tag-action"}
FormatKeys == {"date-format", "date-display-format", "time-format", "archive-date-format"}
CompiledKeys == OrKeys \cup RawKeys \cup NullishKeys \cup FormatKeys
                    \cup {"date-time-display-format", "metadata-keys", "archive-date-separator"}
SettingKeys == CompiledKeys \cup {"archive-with-date", "append-archive-date"}
NoSettings == [k \in SettingKeys |-> Undef]

----
\* Sequence helpers (JS array semantics).
RECURSIVE Flatten(_)
Flatten(ss) == IF ss = <<>> THEN <<>> ELSE Head(ss) \o Flatten(Tail(ss))

\* Array.prototype.map over a sequence.
Map(s, F(_)) == [i \in 1..Len(s) |-> F(s[i])]
MapIdx(s, F(_, _)) == [i \in 1..Len(s) |-> F(s[i], i - 1)]

\* findIndex by id: 0-based, -1 is modelled as Len(s) (not found).
Found(s, id) == \E i \in 1..Len(s) : s[i].id = id
IndexOfId(s, id) == (CHOOSE i \in 1..Len(s) : s[i].id = id /\ \A j \in 1..(i - 1) : s[j].id # id) - 1

\* splice(i, 1): remove the element at 0-based index i.
RemoveAt(s, i) == [j \in 1..(Len(s) - 1) |-> IF j <= i THEN s[j] ELSE s[j + 1]]
\* splice(i, 0, x): insert x at 0-based index i; a start beyond the length is clamped.
Clamp(i, n) == IF i > n THEN n ELSE i
InsertAt(s, i, x) == SubSeq(s, 1, Clamp(i, Len(s))) \o <<x>> \o SubSeq(s, Clamp(i, Len(s)) + 1, Len(s))
\* filter(e => e.id !== id)
WithoutId(s, id) == SelectSeq(s, LAMBDA e : e.id # id)

----
\* Board structure.
Defined(b) == b # Undefined
LaneItems(b) == Flatten(Map(b.children, LAMBDA l : l.children))
ListItems(b) == Flatten(Map(VirtualLanes, LAMBDA n : b.data[n]))
AllItems(b) == LaneItems(b) \o ListItems(b)
ItemIds(b) == {AllItems(b)[i].id : i \in 1..Len(AllItems(b))}
Occurrences(b, id) == Cardinality({i \in 1..Len(AllItems(b)) : AllItems(b)[i].id = id})
Structure(b) == [children |-> b.children, lists |-> [n \in VirtualNames |-> b.data[n]]]

----
\* Document text and the Format (parsers/List is outside src/: modelled from spec.md 4.3).
\* A text is a record: kind "empty" (blank), "malformed" (the parser throws) or "board".
Card(t, checked, ch) == [titleRaw |-> t, checked |-> checked, checkChar |-> ch]
NoLists == [n \in VirtualNames |-> <<>>]
EmptyText == [kind |-> "empty"]
\* A text of white space only.
BlankText == [kind |-> "blank"]
MalformedText == [kind |-> "malformed"]
BoardText(lanes, lists, settings) == [kind |-> "board", lanes |-> lanes, lists |-> lists, settings |-> settings]

LaneId(n) == "L" \o ToString(n)
NewItemFrom(card, id) == [id |-> id, titleRaw |-> card.titleRaw, checked |-> card.checked, checkChar |-> card.checkChar]
NumberItems(cards, base) == [i \in 1..Len(cards) |-> NewItemFrom(cards[i], base + i)]

RECURSIVE NumberLanes(_, _, _)
NumberLanes(lanes, laneBase, itemBase) ==
    IF lanes = <<>> THEN <<>>
    ELSE <<[id |-> LaneId(laneBase + 1),
            title |-> Head(lanes).title,
            shouldMarkItemsComplete |-> Head(lanes).shouldMarkItemsComplete,
            children |-> NumberItems(Head(lanes).cards, itemBase)]>>
         \o NumberLanes(Tail(lanes), laneBase + 1, itemBase + Len(Head(lanes).cards))

RECURSIVE NumberLists(_, _, _)
NumberLists(names, lists, itemBase) ==
    IF names = <<>> THEN <<>>
    ELSE <<NumberItems(lists[Head(names)], itemBase)>>
         \o NumberLists(Tail(names), lists, itemBase + Len(lists[Head(names)]))

TextLaneCards(text) == Flatten(Map(text.lanes, LAMBDA l : l.cards))
TextListCards(text) == Flatten(Map(VirtualLanes, LAMBDA n : text.lists[n]))
IdsNeeded(text) ==
    IF text.kind = "board" THEN Len(text.lanes) + Len(TextLaneCards(text)) + Len(TextListCards(text)) ELSE 0

ListIndex(n) == CHOOSE i \in 1..Len(VirtualLanes) : VirtualLanes[i] = n

\* mdToBoard: every lane and card gets a fresh instance id (spec.md 3: ids are opaque,
\* not derived from content).
mdToBoard(text, base) ==
    LET laneCount == Len(text.lanes)
        laneCards == Len(TextLaneCards(text))
        lists == NumberLists(VirtualLanes, text.lists, base + laneCount + laneCards)
    IN [children |-> NumberLanes(text.lanes, base, base + laneCount),
        data |-> [archive |-> lists[ListIndex("archive")],
                  done |-> lists[ListIndex("done")],
                  delegated |-> lists[ListIndex("delegated")],
                  recurring |-> lists[ListIndex("recurring")],
                  proposals |-> lists[ListIndex("proposals")],
                  waiting |-> lists[ListIndex("waiting")],
                  settings |-> text.settings,
                  errors |-> <<>>]]

StripItem(item) == Card(item.titleRaw, item.checked, item.checkChar)
\* A serialization that leaves the virtual lists out.
BoardToMdWithoutLists(b) ==
    BoardText(Map(b.children, LAMBDA l : [title |-> l.title,
                                         shouldMarkItemsComplete |-> l.shouldMarkItemsComplete,
                                         cards |-> Map(l.children, StripItem)]),
              NoLists, b.data.settings)
\* boardToMd: only titleRaw, the completion marker and the lane/list structure are written.
boardToMd(b) ==
    BoardText(Map(b.children, LAMBDA l : [title |-> l.title,
                                         shouldMarkItemsComplete |-> l.shouldMarkItemsComplete,
                                         cards |-> Map(l.children, StripItem)]),
              [n \in VirtualNames |-> Map(b.data[n], StripItem)],
              b.data.settings)

DefaultSettings == [NoSettings EXCEPT ![frontmatterKey] = "board"]
BoardTemplate ==
    [children |-> <<>>,
     data |-> [archive |-> <<>>, done |-> <<>>, delegated |-> <<>>, recurring |-> <<>>,
               proposals |-> <<>>, waiting |-> <<>>,
               settings |-> DefaultSettings, errors |-> <<>>]]

PushError(b, e) == [b EXCEPT !.data.errors = Append(@, e)]

\* getParsedBoard that lets the parser's exception through.
GetParsedBoardThrowing(text, base) ==
    IF text.kind \in {"empty", "blank"} THEN BoardTemplate
    ELSE IF text.kind = "malformed" THEN [throws |-> "parse"]
    ELSE mdToBoard(text, base)

\* data.trim()
trimText(text) == IF text.kind = "blank" THEN EmptyText ELSE text

getParsedBoard(text, base) ==
    LET trimmedContent == trimText(text)
    IN IF trimmedContent.kind = "empty" THEN BoardTemplate
       ELSE IF trimmedContent.kind = "malformed" THEN PushError(BoardTemplate, "parse")
       ELSE mdToBoard(trimmedContent, base)

----
\* Settings.
Falsy(v) == v \in {Undef, "null", "", "false"}

\* v || d without the fallback.
OrWithoutDefault(v, d) == v
\* v ?? d read as v || d.
CoalesceFalsy(v, d) == IF Falsy(v) THEN d ELSE v
\* A union that keeps only its first element.
FirstOnly(q) == IF q = <<>> THEN <<>> ELSE <<q[1]>>

Or(v, d) == IF Falsy(v) THEN d ELSE v

getGlobalSetting(glob, key) == IF glob[key] # Undef THEN glob[key] ELSE "null"

getSettingRaw(st, glob, key, supplied) ==
    IF supplied[key] # Undef THEN supplied[key]
    ELSE IF Defined(st) /\ st.data.settings[key] # Undef THEN st.data.settings[key]
    ELSE getGlobalSetting(glob, key)

getSetting(st, compiled, glob, key, supplied) ==
    IF supplied[key] # Undef THEN supplied[key]
    ELSE IF compiled[key] # Undef THEN compiled[key]
    ELSE getSettingRaw(st, glob, key, NoSettings)

Nullish(v) == v \in {Undef, "null"}
Coalesce(v, d) == IF Nullish(v) THEN d ELSE v

DefaultDateFormat == "YYYY-MM-DD"
DefaultTimeFormat == "HH:mm"

\* The built-in default of each key resolved with || or ??.
BuiltIn ==
    [k \in OrKeys \cup NullishKeys |->
        IF k = frontmatterKey THEN "board"
        ELSE IF k = "date-trigger" THEN "defaultDateTrigger"
        ELSE IF k = "inline-metadata-position" THEN "defaultMetadataPosition"
        ELSE IF k = "time-trigger" THEN "defaultTimeTrigger"
        ELSE IF k \in ToggleKeys THEN "true"
        ELSE IF k = "tag-action" THEN "obsidian"
        ELSE "[]"]

\* A list-valued setting is held as its literal; Elems reads the elements of a literal
\* and Literal writes a list of elements back.
ListLiterals == {"[]", "[a]", "[b]", "[a,a]", "[a,b]", "[b,a]"}
Elems(v) ==
    IF v = "[a]" THEN <<"a">>
    ELSE IF v = "[b]" THEN <<"b">>
    ELSE IF v = "[a,a]" THEN <<"a", "a">>
    ELSE IF v = "[a,b]" THEN <<"a", "b">>
    ELSE IF v = "[b,a]" THEN <<"b", "a">>
    ELSE <<>>
Literal(q) == IF q = <<>> THEN "[]" ELSE CHOOSE v \in ListLiterals : Elems(v) = q

\* Array.from(new Set(q)): the first occurrence of each element, in order.
RECURSIVE Distinct(_)
Distinct(q) ==
    IF q = <<>> THEN <<>>
    ELSE LET init == Distinct(SubSeq(q, 1, Len(q) - 1))
             last == q[Len(q)]
         IN IF \E i \in 1..Len(init) : init[i] = last THEN init ELSE Append(init, last)

compileSettings(st, glob, sup) ==
    LET raw(k) == getSettingRaw(st, glob, k, sup)
        globalKeys == Elems(Or(getGlobalSetting(glob, "metadata-keys"), "[]"))
        localKeys == Elems(Or(raw("metadata-keys"), "[]"))
        metadataKeys == Literal(Distinct(globalKeys \o localKeys))
        dateFormat == Or(raw("date-format"), DefaultDateFormat)
        dateDisplayFormat == Or(raw("date-display-format"), dateFormat)
        timeFormat == Or(raw("time-format"), DefaultTimeFormat)
        archiveDateFormat == Or(raw("archive-date-format"), dateFormat \o " " \o timeFormat)
    IN [k \in SettingKeys |->
        IF k \in OrKeys THEN Or(raw(k), BuiltIn[k])
        ELSE IF k = "date-format" THEN dateFormat
        ELSE IF k = "date-display-format" THEN dateDisplayFormat
        ELSE IF k = "date-time-display-format" THEN dateDisplayFormat \o " " \o timeFormat
        ELSE IF k = "time-format" THEN timeFormat
        ELSE IF k \in RawKeys THEN raw(k)
        ELSE IF k = "metadata-keys" THEN metadataKeys
        ELSE IF k = "archive-date-separator"
             THEN Or(getSettingRaw(st, glob, "archive-date-separator", NoSettings), "")
        ELSE IF k = "archive-date-format" THEN archiveDateFormat
        ELSE IF k \in NullishKeys THEN Coalesce(raw(k), BuiltIn[k])
        ELSE Undef]

ParseKeys == {"date-format"}
shouldRefreshBoard(old, new) == \E k \in ParseKeys : old[k] # new[k]

----
\* The manager as a value: the fields one call reads and writes, plus what the call
\* emitted so far.
Mgr == [state |-> state, compiledSettings |-> compiledSettings, viewData |-> viewData,
        nextId |-> nextId, delivered |-> <<>>, written |-> <<>>, escaped |-> FALSE,
        compiledSeen |-> <<>>, notified |-> {}, events |-> <<>>]

getAView == IF viewSet = {} THEN "none" ELSE CHOOSE v \in viewSet : TRUE

\* saveToDisk with the guard removed.
SaveToDiskUnguarded(m) ==
    IF getAView = "none" THEN m
    ELSE [m EXCEPT !.written = Append(@, [view |-> getAView, text |-> boardToMd(m.state),
                                         errors |-> Len(m.state.data.errors)]),
                   !.events = Append(@, "write"),
                   !.viewData = [v \in Views |-> IF v \in viewSet THEN boardToMd(m.state) ELSE @[v]]]

\* saveToDisk that refreshes the data of the writing view only.
SaveToDiskWriterOnly(m) ==
    IF Len(m.state.data.errors) > 0 THEN m
    ELSE IF getAView = "none" THEN m
    ELSE [m EXCEPT !.written = Append(@, [view |-> getAView, text |-> boardToMd(m.state),
                                         errors |-> Len(m.state.data.errors)]),
                   !.events = Append(@, "write"),
                   !.viewData = [@ EXCEPT ![getAView] = boardToMd(m.state)]]

saveToDisk(m) ==
    IF Len(m.state.data.errors) > 0 THEN m
    ELSE IF getAView = "none" THEN m
    ELSE [m EXCEPT !.written = Append(@, [view |-> getAView, text |-> boardToMd(m.state),
                                         errors |-> Len(m.state.data.errors)]),
                   !.events = Append(@, "write"),
                   !.viewData = [v \in Views |-> IF v \in viewSet THEN boardToMd(m.state) ELSE @[v]]]

\* parser.reparseBoard (outside src/): the board re-derived from the document's current
\* text under the settings already placed on this.state.
reparseBoard(m) ==
    LET text == m.viewData[getAView]
        parsed == getParsedBoard(text, m.nextId)
    IN [m EXCEPT !.state = [parsed EXCEPT !.data.settings = m.state.data.settings],
                 !.nextId = @ + IdsNeeded(text)]

\* The keys that have a listener in settingsNotifiers (useSetting adds one per key used).
ListenedKeys == SettingKeys

\* The keys whose notifiers setState invokes: the raw local settings are compared.
ChangedKeys(st, newState) ==
    IF ~Defined(st) THEN ListenedKeys
    ELSE {k \in ListenedKeys : st.data.settings[k] # newState.data.settings[k]}

\* setState without the re-parse branch: the candidate always becomes the board.
SetStateValueKeepingCandidate(m, newState, shouldSave) ==
    LET assigned == [m EXCEPT !.state = newState,
                              !.compiledSettings = compileSettings(newState, globalSettings, NoSettings)]
        saved == IF shouldSave THEN saveToDisk(assigned) ELSE assigned
    IN [saved EXCEPT !.delivered = Append(@, saved.state),
                     !.compiledSeen = Append(@, saved.compiledSettings),
                     !.notified = ChangedKeys(m.state, newState),
                     !.events = @ \o <<"receiver">> \o
                                (IF ChangedKeys(m.state, newState) # {} THEN <<"listener">> ELSE <<>>)]

\* setState that notifies the receivers before it compiles the settings.
SetStateValueNotifyingFirst(m, newState, shouldSave) ==
    LET refresh == Defined(m.state) /\ shouldRefreshBoard(m.state.data.settings, newState.data.settings)
        swapped == [m EXCEPT !.state.data.settings = newState.data.settings]
        assigned == IF refresh THEN reparseBoard(swapped) ELSE [m EXCEPT !.state = newState]
        saved == IF shouldSave THEN saveToDisk(assigned) ELSE assigned
    IN [saved EXCEPT !.delivered = Append(@, saved.state),
                     !.compiledSeen = Append(@, saved.compiledSettings),
                     !.compiledSettings = compileSettings(saved.state, globalSettings, NoSettings),
                     !.notified = ChangedKeys(m.state, newState),
                     !.events = @ \o <<"receiver">> \o
                                (IF ChangedKeys(m.state, newState) # {} THEN <<"listener">> ELSE <<>>)]

\* setState for a candidate that was computed without throwing.
SetStateValue(m, newState, shouldSave) ==
    LET refresh == Defined(m.state) /\ shouldRefreshBoard(m.state.data.settings, newState.data.settings)
        swapped == [m EXCEPT !.state.data.settings = newState.data.settings]
        assigned == IF refresh
                    THEN LET c == [swapped EXCEPT !.compiledSettings = compileSettings(swapped.state, globalSettings, NoSettings)]
                         IN reparseBoard(c)
                    ELSE [m EXCEPT !.state = newState,
                                   !.compiledSettings = compileSettings(newState, globalSettings, NoSettings)]
        saved == IF shouldSave THEN saveToDisk(assigned) ELSE assigned
    IN [saved EXCEPT !.delivered = Append(@, saved.state),
                     !.compiledSeen = Append(@, saved.compiledSettings),
                     !.notified = ChangedKeys(m.state, newState),
                     !.events = @ \o <<"receiver">> \o
                                (IF ChangedKeys(m.state, newState) # {} THEN <<"listener">> ELSE <<>>)]

\* setError that notifies without recording the error.
SetErrorSwallowing(m, e) ==
    IF ~Defined(m.state) THEN [m EXCEPT !.escaped = TRUE]
    ELSE [m EXCEPT !.delivered = Append(@, m.state), !.events = Append(@, "receiver")]

\* setError: update(this.state, ...) throws on an undefined board.
setError(m, e) ==
    IF ~Defined(m.state) THEN [m EXCEPT !.escaped = TRUE]
    ELSE SetStateValue(m, PushError(m.state, e), FALSE)

\* A candidate is a board, or Throws(e) when computing it threw e.
Throws(e) == [throws |-> e]
IsThrow(cand) == "throws" \in DOMAIN cand

setState(m, cand, shouldSave) ==
    IF IsThrow(cand) THEN setError(m, cand.throws)
    ELSE SetStateValue(m, cand, shouldSave)

Commit(m, name) ==
    /\ state' = m.state
    /\ compiledSettings' = m.compiledSettings
    /\ viewData' = m.viewData
    /\ nextId' = m.nextId
    /\ delivered' = m.delivered
    /\ written' = m.written
    /\ escaped' = m.escaped
    /\ compiledSeen' = m.compiledSeen
    /\ notified' = m.notified
    /\ events' = m.events
    /\ op' = name

\* A call that only re-notifies the receivers with a shallow clone of the board.
NotifyOnly(name) ==
    /\ UNCHANGED mgrVars
    /\ delivered' = <<state>>
    /\ written' = <<>>
    /\ escaped' = FALSE
    /\ compiledSeen' = <<compiledSettings>>
    /\ notified' = {}
    /\ events' = <<"receiver">>
    /\ op' = name


----
\* Selection and pane operations (StateManager.ts 457-694). Each re-notifies the receivers.
\* They are called from the rendered board (header buttons, cards), so a board exists.
paneFrame == Defined(state) /\ UNCHANGED <<envVars, regVars, undoVars, archiveAwait, menu>>

SelectItemEffect(itemId) ==
    /\ selectedItemId' = itemId
    /\ isArchiveOpen' = (IF itemId # NoSelection THEN FALSE ELSE isArchiveOpen)
    /\ UNCHANGED <<isDoneOpen, isDelegatedOpen, isRecurringOpen, isProposalsOpen, isWaitingOpen>>

\* The ids selectItem is called with: a card of the board, or null.
SelectableIds == IF Defined(state) THEN ItemIds(state) \cup {NoSelection} ELSE {NoSelection}

selectItem ==
    \E itemId \in SelectableIds :
        /\ SelectItemEffect(itemId)
        /\ UNCHANGED previousPaneMode
        /\ NotifyOnly("selectItem")
        /\ paneFrame

toggleArchive ==
    /\ isArchiveOpen' = ~isArchiveOpen
    /\ IF ~isArchiveOpen
       THEN /\ selectedItemId' = NoSelection
            /\ isDoneOpen' = FALSE
            /\ isDelegatedOpen' = FALSE
       ELSE UNCHANGED <<selectedItemId, isDoneOpen, isDelegatedOpen>>
    /\ UNCHANGED <<isRecurringOpen, isProposalsOpen, isWaitingOpen, previousPaneMode>>
    /\ NotifyOnly("toggleArchive")
    /\ paneFrame

openArchive ==
    /\ isArchiveOpen' = TRUE
    /\ selectedItemId' = NoSelection
    /\ UNCHANGED <<isDoneOpen, isDelegatedOpen, isRecurringOpen, isProposalsOpen, isWaitingOpen, previousPaneMode>>
    /\ NotifyOnly("openArchive")
    /\ paneFrame

closeArchive ==
    /\ isArchiveOpen' = FALSE
    /\ UNCHANGED <<selectedItemId, isDoneOpen, isDelegatedOpen, isRecurringOpen, isProposalsOpen, isWaitingOpen, previousPaneMode>>
    /\ NotifyOnly("closeArchive")
    /\ paneFrame

toggleDone ==
    /\ isDoneOpen' = ~isDoneOpen
    /\ IF ~isDoneOpen
       THEN /\ selectedItemId' = NoSelection
            /\ isArchiveOpen' = FALSE
            /\ isDelegatedOpen' = FALSE
       ELSE UNCHANGED <<selectedItemId, isArchiveOpen, isDelegatedOpen>>
    /\ UNCHANGED <<isRecurringOpen, isProposalsOpen, isWaitingOpen, previousPaneMode>>
    /\ NotifyOnly("toggleDone")
    /\ paneFrame

openDone ==
    /\ isDoneOpen' = TRUE
    /\ selectedItemId' = NoSelection
    /\ isArchiveOpen' = FALSE
    /\ UNCHANGED <<isDelegatedOpen, isRecurringOpen, isProposalsOpen, isWaitingOpen, previousPaneMode>>
    /\ NotifyOnly("openDone")
    /\ paneFrame

closeDone ==
    /\ isDoneOpen' = FALSE
    /\ UNCHANGED <<selectedItemId, isArchiveOpen, isDelegatedOpen, isRecurringOpen, isProposalsOpen, isWaitingOpen, previousPaneMode>>
    /\ NotifyOnly("closeDone")
    /\ paneFrame

toggleDelegated ==
    /\ isDelegatedOpen' = ~isDelegatedOpen
    /\ IF ~isDelegatedOpen
       THEN /\ selectedItemId' = NoSelection
            /\ isArchiveOpen' = FALSE
            /\ isDoneOpen' = FALSE
       ELSE UNCHANGED <<selectedItemId, isArchiveOpen, isDoneOpen>>
    /\ UNCHANGED <<isRecurringOpen, isProposalsOpen, isWaitingOpen, previousPaneMode>>
    /\ NotifyOnly("toggleDelegated")
    /\ paneFrame

openDelegated ==
    /\ isDelegatedOpen' = TRUE
    /\ selectedItemId' = NoSelection
    /\ isArchiveOpen' = FALSE
    /\ isDoneOpen' = FALSE
    /\ UNCHANGED <<isRecurringOpen, isProposalsOpen, isWaitingOpen, previousPaneMode>>
    /\ NotifyOnly("openDelegated")
    /\ paneFrame

closeDelegated ==
    /\ isDelegatedOpen' = FALSE
    /\ UNCHANGED <<selectedItemId, isArchiveOpen, isDoneOpen, isRecurringOpen, isProposalsOpen, isWaitingOpen, previousPaneMode>>
    /\ NotifyOnly("closeDelegated")
    /\ paneFrame

toggleRecurring ==
    /\ isRecurringOpen' = ~isRecurringOpen
    /\ IF ~isRecurringOpen
       THEN /\ selectedItemId' = NoSelection
            /\ isArchiveOpen' = FALSE
            /\ isDoneOpen' = FALSE
            /\ isDelegatedOpen' = FALSE
            /\ isProposalsOpen' = FALSE
            /\ isWaitingOpen' = FALSE
       ELSE UNCHANGED <<selectedItemId, isArchiveOpen, isDoneOpen, isDelegatedOpen, isProposalsOpen, isWaitingOpen>>
    /\ UNCHANGED previousPaneMode
    /\ NotifyOnly("toggleRecurring")
    /\ paneFrame

openRecurring ==
    /\ isRecurringOpen' = TRUE
    /\ selectedItemId' = NoSelection
    /\ isArchiveOpen' = FALSE
    /\ isDoneOpen' = FALSE
    /\ isDelegatedOpen' = FALSE
    /\ isProposalsOpen' = FALSE
    /\ isWaitingOpen' = FALSE
    /\ UNCHANGED previousPaneMode
    /\ NotifyOnly("openRecurring")
    /\ paneFrame

closeRecurring ==
    /\ isRecurringOpen' = FALSE
    /\ UNCHANGED <<selectedItemId, isArchiveOpen, isDoneOpen, isDelegatedOpen, isProposalsOpen, isWaitingOpen, previousPaneMode>>
    /\ NotifyOnly("closeRecurring")
    /\ paneFrame

toggleProposals ==
    /\ isProposalsOpen' = ~isProposalsOpen
    /\ IF ~isProposalsOpen
       THEN /\ selectedItemId' = NoSelection
            /\ isArchiveOpen' = FALSE
            /\ isDoneOpen' = FALSE
            /\ isDelegatedOpen' = FALSE
            /\ isRecurringOpen' = FALSE
            /\ isWaitingOpen' = FALSE
       ELSE UNCHANGED <<selectedItemId, isArchiveOpen, isDoneOpen, isDelegatedOpen, isRecurringOpen, isWaitingOpen>>
    /\ UNCHANGED previousPaneMode
    /\ NotifyOnly("toggleProposals")
    /\ paneFrame

openProposals ==
    /\ isProposalsOpen' = TRUE
    /\ selectedItemId' = NoSelection
    /\ isArchiveOpen' = FALSE
    /\ isDoneOpen' = FALSE
    /\ isDelegatedOpen' = FALSE
    /\ isRecurringOpen' = FALSE
    /\ isWaitingOpen' = FALSE
    /\ UNCHANGED previousPaneMode
    /\ NotifyOnly("openProposals")
    /\ paneFrame

closeProposals ==
    /\ isProposalsOpen' = FALSE
    /\ UNCHANGED <<selectedItemId, isArchiveOpen, isDoneOpen, isDelegatedOpen, isRecurringOpen, isWaitingOpen, previousPaneMode>>
    /\ NotifyOnly("closeProposals")
    /\ paneFrame

toggleWaiting ==
    /\ isWaitingOpen' = ~isWaitingOpen
    /\ IF ~isWaitingOpen
       THEN /\ selectedItemId' = NoSelection
            /\ isArchiveOpen' = FALSE
            /\ isDoneOpen' = FALSE
            /\ isDelegatedOpen' = FALSE
            /\ isRecurringOpen' = FALSE
            /\ isProposalsOpen' = FALSE
       ELSE UNCHANGED <<selectedItemId, isArchiveOpen, isDoneOpen, isDelegatedOpen, isRecurringOpen, isProposalsOpen>>
    /\ UNCHANGED previousPaneMode
    /\ NotifyOnly("toggleWaiting")
    /\ paneFrame

openWaiting ==
    /\ isWaitingOpen' = TRUE
    /\ selectedItemId' = NoSelection
    /\ isArchiveOpen' = FALSE
    /\ isDoneOpen' = FALSE
    /\ isDelegatedOpen' = FALSE
    /\ isRecurringOpen' = FALSE
    /\ isProposalsOpen' = FALSE
    /\ UNCHANGED previousPaneMode
    /\ NotifyOnly("openWaiting")
    /\ paneFrame

closeWaiting ==
    /\ isWaitingOpen' = FALSE
    /\ UNCHANGED <<selectedItemId, isArchiveOpen, isDoneOpen, isDelegatedOpen, isRecurringOpen, isProposalsOpen, previousPaneMode>>
    /\ NotifyOnly("closeWaiting")
    /\ paneFrame

----
\* Attaching the first view (constructor -> registerView -> newBoard).
uiFrame == UNCHANGED <<selVars, paneVars>>

\* registerView after its initial delay: newBoard parses the text and awaits view.prerender.
registerViewParse(v) ==
    /\ regPc[v] = "delay"
    /\ regPc' = [regPc EXCEPT ![v] = "prerender"]
    /\ regBoard' = getParsedBoard(viewData[v], nextId)
    /\ nextId' = nextId + IdsNeeded(viewData[v])
    /\ UNCHANGED <<state, compiledSettings, viewData, viewSet, envVars, undoVars, archiveAwait, menu>>
    /\ UNCHANGED <<delivered, written, escaped, compiledSeen, notified, events>>
    /\ op' = "registerView"
    /\ uiFrame

\* view.prerender settles: resolved -> setState(board, false); rejected -> setError(e).
newBoardSettle(v, resolved) ==
    /\ regPc[v] = "prerender"
    /\ LET m == IF resolved THEN setState(Mgr, regBoard, FALSE) ELSE setError(Mgr, "prerender")
       IN /\ Commit(m, "newBoard")
          /\ regPc' = [regPc EXCEPT ![v] = IF m.escaped THEN "failed" ELSE "ready"]
    /\ regBoard' = Undefined
    /\ UNCHANGED <<viewSet, envVars, undoVars, archiveAwait, menu>>
    /\ uiFrame

newBoard == \E v \in viewSet : registerViewParse(v) \/ \E resolved \in BOOLEAN : newBoardSettle(v, resolved)

----
\* Board operations of the manager and of the UI handlers.
\* A user gesture: the board is rendered and no item menu is open in front of it.
Gesture == Defined(state) /\ menu = Null
boardFrame == UNCHANGED <<envVars, regVars, paneVars>>

getSelectedItem(st, id) ==
    IF id = NoSelection \/ ~Defined(st) \/ ~Found(AllItems(st), id) THEN Null
    ELSE AllItems(st)[IndexOfId(AllItems(st), id) + 1]

\* Transforms other observers hand to setState (boardModifiers is outside src/).
deleteLane(b, i) == [b EXCEPT !.children = RemoveAt(@, i)]
moveLaneToEnd(b) == [b EXCEPT !.children = Tail(@) \o <<Head(@)>>]
ApplyTransform(t, b) ==
    IF t = "throw" THEN Throws("transform")
    ELSE IF t = "deleteLane" THEN deleteLane(b, 0)
    ELSE moveLaneToEnd(b)

setStateCall(t, shouldSave, name) ==
    /\ Gesture
    /\ Commit(setState(Mgr, ApplyTransform(t, state), shouldSave), name)
    /\ UNCHANGED <<selVars, undoVars, archiveAwait, menu>>
    /\ boardFrame

\* setState(fn) whose fn throws.
transformThrows ==
    /\ Defined(state) /\ Len(state.data.errors) < MaxErrors
    /\ \E shouldSave \in BOOLEAN : setStateCall("throw", shouldSave, "setState")

laneDeleted ==
    /\ Defined(state) /\ Len(state.children) >= 1
    /\ setStateCall("deleteLane", TRUE, "deleteLane")

laneMoved ==
    /\ Defined(state) /\ Len(state.children) >= 2
    /\ setStateCall("moveLane", TRUE, "moveLane")

\* forceRefresh (StateManager.ts 140-156) and reparseBoardFromMd (381-388). The host raises
\* these events for a view whose registration has run to its end.
Registered == \A v \in viewSet : regPc[v] \in {"ready", "failed"}

\* forceRefresh that also saves the board it re-derived.
ForceRefreshSaving ==
    /\ Registered
    /\ IF Defined(state)
       THEN /\ nextId + IdsNeeded(viewData[getAView]) <= MaxIds
            /\ LET c == [Mgr EXCEPT !.compiledSettings = compileSettings(state, globalSettings, NoSettings)]
                   r == saveToDisk(reparseBoard(c))
               IN Commit([r EXCEPT !.delivered = <<r.state>>,
                                     !.compiledSeen = <<r.compiledSettings>>,
                                     !.notified = ListenedKeys,
                                     !.events = @ \o <<"receiver", "listener">>], "forceRefresh")
       ELSE /\ UNCHANGED mgrVars
            /\ delivered' = <<>> /\ written' = <<>> /\ escaped' = FALSE /\ compiledSeen' = <<>> /\ notified' = {} /\ events' = <<>>
            /\ op' = "forceRefresh"
    /\ UNCHANGED <<selVars, undoVars, archiveAwait, menu>>
    /\ boardFrame

forceRefresh ==
    /\ Registered
    /\ IF Defined(state)
       THEN /\ nextId + IdsNeeded(viewData[getAView]) <= MaxIds
            /\ LET c == [Mgr EXCEPT !.compiledSettings = compileSettings(state, globalSettings, NoSettings)]
                   r == reparseBoard(c)
               IN Commit([r EXCEPT !.delivered = <<r.state>>,
                                     !.compiledSeen = <<r.compiledSettings>>,
                                     !.notified = ListenedKeys,
                                     !.events = <<"receiver", "listener">>], "forceRefresh")
       ELSE /\ UNCHANGED mgrVars
            /\ delivered' = <<>> /\ written' = <<>> /\ escaped' = FALSE /\ compiledSeen' = <<>> /\ notified' = {} /\ events' = <<>>
            /\ op' = "forceRefresh"
    /\ UNCHANGED <<selVars, undoVars, archiveAwait, menu>>
    /\ boardFrame

\* reparseBoardFromMd parsing the manager's own serialization instead of the view's text.
ReparseBoardFromMdOfBoard ==
    /\ Registered
    /\ viewSet # {}
    /\ nextId + IdsNeeded(viewData[getAView]) <= MaxIds
    /\ LET parsed == getParsedBoard(IF Defined(state) THEN boardToMd(state) ELSE viewData[getAView], nextId)
           m == [Mgr EXCEPT !.nextId = @ + IdsNeeded(viewData[getAView])]
       IN Commit(setState(m, parsed, FALSE), "reparseBoardFromMd")
    /\ UNCHANGED <<selVars, undoVars, archiveAwait, menu>>
    /\ boardFrame

reparseBoardFromMd ==
    /\ Registered
    /\ viewSet # {}
    /\ nextId + IdsNeeded(viewData[getAView]) <= MaxIds
    /\ LET parsed == getParsedBoard(viewData[getAView], nextId)
           m == [Mgr EXCEPT !.nextId = @ + IdsNeeded(viewData[getAView])]
       IN Commit(setState(m, parsed, FALSE), "reparseBoardFromMd")
    /\ UNCHANGED <<selVars, undoVars, archiveAwait, menu>>
    /\ boardFrame

saveToDiskCall ==
    /\ Gesture
    /\ Commit(saveToDisk(Mgr), "saveToDisk")
    /\ UNCHANGED <<selVars, undoVars, archiveAwait, menu>>
    /\ boardFrame

\* archiveCompletedCards (StateManager.ts 390-446).
TaskStatusDone == "x"
isComplete(item) == item.checked /\ item.checkChar = TaskStatusDone
Archived(b) ==
    Flatten(Map(b.children, LAMBDA lane :
        SelectSeq(lane.children, LAMBDA item : lane.shouldMarkItemsComplete \/ isComplete(item))))
\* The filter keeping every card of a lane flagged shouldMarkItemsComplete.
KeptIgnoringLaneFlag(lane) == SelectSeq(lane.children, LAMBDA item : ~isComplete(item))
Kept(lane) == SelectSeq(lane.children, LAMBDA item : ~isComplete(item) /\ ~lane.shouldMarkItemsComplete)
ArchivedLanes(b) == Map(b.children, LAMBDA lane : [lane EXCEPT !.children = Kept(lane)])

updateItemContent(item, titleRaw) == [item EXCEPT !.titleRaw = titleRaw]
appendArchiveDate(item, sep, afterTitle) ==
    LET newTitle == <<"@date">> \o (IF Falsy(sep) THEN <<>> ELSE <<sep>>) \o item.titleRaw
        reversed == item.titleRaw \o (IF Falsy(sep) THEN <<>> ELSE <<sep>>) \o <<"@date">>
    IN updateItemContent(item, IF Falsy(afterTitle) THEN newTitle ELSE reversed)

ArchiveUpdate(board, lanes, pushed) ==
    [board EXCEPT !.children = lanes, !.data.archive = @ \o pushed]

\* The command invoked before the first board was set: `board.children` throws outside the try.
archiveWithoutBoard ==
    /\ UNCHANGED mgrVars
    /\ delivered' = <<>> /\ written' = <<>> /\ escaped' = TRUE /\ compiledSeen' = <<>> /\ notified' = {} /\ events' = <<>>
    /\ op' = "archiveCompletedCards"
    /\ UNCHANGED archiveAwait

archiveWithBoard ==
    /\ LET board == state
           shouldAppendArchiveDate == ~Falsy(getSetting(state, compiledSettings, globalSettings, "archive-with-date", NoSettings))
           sep == getSetting(state, compiledSettings, globalSettings, "archive-date-separator", NoSettings)
           afterTitle == getSetting(state, compiledSettings, globalSettings, "append-archive-date", NoSettings)
           archived == Archived(board)
           lanes == ArchivedLanes(board)
       IN IF shouldAppendArchiveDate
          THEN /\ archiveAwait' = [board |-> board, lanes |-> lanes,
                                   pushed |-> Map(archived, LAMBDA item : appendArchiveDate(item, sep, afterTitle))]
               /\ UNCHANGED mgrVars
               /\ delivered' = <<>> /\ written' = <<>> /\ escaped' = FALSE /\ compiledSeen' = <<>> /\ notified' = {} /\ events' = <<>>
               /\ op' = "archiveCompletedCards:await"
          ELSE /\ Commit(setState(Mgr, ArchiveUpdate(board, lanes, archived), TRUE), "archiveCompletedCards")
               /\ UNCHANGED archiveAwait

archiveCompletedCards ==
    /\ archiveAwait = Null
    /\ Defined(state) => \A i \in 1..Len(Archived(state)) : Len(Archived(state)[i].titleRaw) < MaxTitleLen
    /\ IF Defined(state) THEN archiveWithBoard ELSE archiveWithoutBoard
    /\ UNCHANGED <<selVars, undoVars, menu>>
    /\ boardFrame

\* The continuation after `await Promise.all(...)`.
archiveResume ==
    /\ archiveAwait # Null
    /\ Commit(setState(Mgr, ArchiveUpdate(archiveAwait.board, archiveAwait.lanes, archiveAwait.pushed), TRUE),
              "archiveCompletedCards")
    /\ archiveAwait' = Null
    /\ UNCHANGED <<selVars, undoVars, menu>>
    /\ boardFrame

\* Undo buffer (StateManager.ts 697-741) and the detail pane's Delete/Backspace handler.
InLane(b, id) == \E i \in 1..Len(b.children) : Found(b.children[i].children, id)
ListOf(b, id) == VirtualLanes[CHOOSE i \in 1..Len(VirtualLanes) : Found(b.data[VirtualLanes[i]], id) /\ \A j \in 1..(i - 1) : ~Found(b.data[VirtualLanes[j]], id)]
InList(b, id) == \E n \in VirtualNames : Found(b.data[n], id)
FirstLaneOf(b, id) == CHOOSE i \in 1..Len(b.children) : Found(b.children[i].children, id) /\ \A j \in 1..(i - 1) : ~Found(b.children[j].children, id)

LocationOf(b, id) ==
    IF InLane(b, id)
    THEN [type |-> "lane", laneIndex |-> FirstLaneOf(b, id) - 1,
          itemIndex |-> IndexOfId(b.children[FirstLaneOf(b, id)].children, id)]
    ELSE IF InList(b, id)
    THEN [type |-> "virtual", listName |-> ListOf(b, id), itemIndex |-> IndexOfId(b.data[ListOf(b, id)], id)]
    ELSE Null

\* The delete transform: the first occurrence of the id, lanes first, is spliced out.
DeleteById(b, id) ==
    IF InLane(b, id)
    THEN [b EXCEPT !.children[FirstLaneOf(b, id)].children = RemoveAt(@, IndexOfId(@, id))]
    ELSE IF InList(b, id)
    THEN [b EXCEPT !.data[ListOf(b, id)] = RemoveAt(@, IndexOfId(@, id))]
    ELSE b

\* onClose of the detail view (Kanban.tsx is outside src/; spec.md 4.4): the selection is
\* cleared and a recorded previousPaneMode is reopened.
closeDetail ==
    /\ selectedItemId' = NoSelection
    /\ previousPaneMode' = "null"

deleteSelected ==
    /\ Gesture
    /\ getSelectedItem(state, selectedItemId) # Null
    /\ previousPaneMode = "null"
    /\ LET item == getSelectedItem(state, selectedItemId)
           location == LocationOf(state, item.id)
           m == setState(Mgr, DeleteById(state, item.id), TRUE)
       IN /\ lastDeletedBuffer' = [item |-> item, location |-> location]
          /\ deletedFromLane' = IF location.type = "lane" THEN state.children[location.laneIndex + 1].id ELSE "none"
          /\ deletedFromBoard' = state
          /\ Commit([m EXCEPT !.delivered = Append(@, m.state), !.compiledSeen = Append(@, m.compiledSettings),
                                    !.events = Append(@, "receiver")], "deleteSelected")
    /\ closeDetail
    /\ UNCHANGED <<archiveAwait, menu>>
    /\ boardFrame

RestoreTransform(board, item, location) ==
    IF location.type = "lane"
    THEN IF location.laneIndex >= Len(board.children) THEN board
         ELSE [board EXCEPT !.children[location.laneIndex + 1].children = InsertAt(@, location.itemIndex, item)]
    ELSE [board EXCEPT !.data[location.listName] = InsertAt(@, location.itemIndex, item)]

\* restoreLastDeleted that keeps the buffer.
RestoreKeepingBuffer ==
    /\ Gesture
    /\ Len(AllItems(state)) < MaxItems
    /\ lastDeletedBuffer # Null
    /\ Commit(setState(Mgr, RestoreTransform(state, lastDeletedBuffer.item, lastDeletedBuffer.location), TRUE),
              "restoreLastDeleted")
    /\ UNCHANGED undoVars
    /\ UNCHANGED <<selVars, archiveAwait, menu>>
    /\ boardFrame

restoreLastDeleted ==
    /\ Gesture
    /\ Len(AllItems(state)) < MaxItems
    /\ IF lastDeletedBuffer = Null
       THEN /\ UNCHANGED mgrVars
            /\ delivered' = <<>> /\ written' = <<>> /\ escaped' = FALSE /\ compiledSeen' = <<>> /\ notified' = {} /\ events' = <<>>
            /\ op' = "restoreLastDeleted"
            /\ UNCHANGED undoVars
       ELSE /\ Commit(setState(Mgr, RestoreTransform(state, lastDeletedBuffer.item, lastDeletedBuffer.location), TRUE),
                      "restoreLastDeleted")
            /\ lastDeletedBuffer' = Null
            /\ deletedFromLane' = "none"
            /\ deletedFromBoard' = Undefined
    /\ UNCHANGED <<selVars, archiveAwait, menu>>
    /\ boardFrame

\* Item menu (ItemMenu.ts): the menu captures the card and its path when it is shown.
openItemMenu ==
    /\ Gesture
    /\ \E l \in 1..Len(state.children) : \E i \in 1..Len(state.children[l].children) :
          menu' = [item |-> state.children[l].children[i], path |-> <<l - 1, i - 1>>]
    /\ UNCHANGED mgrVars
    /\ delivered' = <<>> /\ written' = <<>> /\ escaped' = FALSE /\ compiledSeen' = <<>> /\ notified' = {} /\ events' = <<>>
    /\ op' = "openItemMenu"
    /\ UNCHANGED <<selVars, undoVars, archiveAwait>>
    /\ boardFrame

dismissMenu ==
    /\ menu # Null
    /\ menu' = Null
    /\ UNCHANGED mgrVars
    /\ delivered' = <<>> /\ written' = <<>> /\ escaped' = FALSE /\ compiledSeen' = <<>> /\ notified' = {} /\ events' = <<>>
    /\ op' = "dismissMenu"
    /\ UNCHANGED <<selVars, undoVars, archiveAwait>>
    /\ boardFrame

DelegateTransform(board, item, path) ==
    [board EXCEPT !.data.delegated = @ \o <<item>>,
                  !.children = MapIdx(@, LAMBDA lane, laneIdx :
                                   IF laneIdx = path[1]
                                   THEN [lane EXCEPT !.children = [k \in 1..Len(SelectSeq(MapIdx(@, LAMBDA e, j : [e |-> e, j |-> j]), LAMBDA p : p.j # path[2])) |->
                                                                      SelectSeq(MapIdx(@, LAMBDA e, j : [e |-> e, j |-> j]), LAMBDA p : p.j # path[2])[k].e]]
                                   ELSE lane)]

delegate ==
    /\ Defined(state)
    /\ menu # Null
    /\ Len(AllItems(state)) < MaxItems
    /\ Commit(setState(Mgr, DelegateTransform(state, menu.item, menu.path), TRUE), "delegate")
    /\ menu' = Null
    /\ UNCHANGED <<selVars, undoVars, archiveAwait>>
    /\ boardFrame

\* SidePaneItemCard buttons and ArchivePane restore: the card comes from the rendered list.
handleArchive ==
    /\ Gesture
    /\ \E i \in 1..Len(state.data.done) :
          LET item == state.data.done[i]
          IN Commit(setState(Mgr, [state EXCEPT !.data.done = WithoutId(@, item.id),
                                                !.data.archive = @ \o <<item>>], TRUE), "handleArchive")
    /\ UNCHANGED <<selVars, undoVars, archiveAwait, menu>>
    /\ boardFrame

handleMarkComplete ==
    /\ Gesture
    /\ \E i \in 1..Len(state.data.delegated) :
          LET item == state.data.delegated[i]
          IN Commit(setState(Mgr, [state EXCEPT !.data.delegated = WithoutId(@, item.id),
                                                !.data.done = @ \o <<item>>], TRUE), "handleMarkComplete")
    /\ UNCHANGED <<selVars, undoVars, archiveAwait, menu>>
    /\ boardFrame

handleRestore ==
    /\ Gesture
    /\ Len(state.children) >= 1
    /\ \E i \in 1..Len(state.data.archive) :
          LET item == state.data.archive[i]
          IN Commit(setState(Mgr, [state EXCEPT !.children[1].children = @ \o <<item>>,
                                                !.data.archive = WithoutId(@, item.id)], TRUE), "handleRestore")
    /\ UNCHANGED <<selVars, undoVars, archiveAwait, menu>>
    /\ boardFrame

\* Status select of the detail pane (DetailPane.tsx 509-620).
removeItem(b, itemId) ==
    [b EXCEPT !.children = Map(@, LAMBDA lane : [lane EXCEPT !.children = WithoutId(@, itemId)]),
              !.data.archive = WithoutId(@, itemId),
              !.data.done = WithoutId(@, itemId),
              !.data.delegated = WithoutId(@, itemId),
              !.data.recurring = WithoutId(@, itemId),
              !.data.proposals = WithoutId(@, itemId),
              !.data.waiting = WithoutId(@, itemId)]

addItem(b, target, item) ==
    IF \E i \in 1..Len(b.children) : b.children[i].id = target
    THEN LET i == CHOOSE i \in 1..Len(b.children) : b.children[i].id = target /\ \A j \in 1..(i - 1) : b.children[j].id # target
         IN [b EXCEPT !.children[i].children = @ \o <<item>>]
    ELSE IF target \in VirtualNames THEN [b EXCEPT !.data[target] = @ \o <<item>>]
    ELSE b

addToLanes(b, targetId, item) ==
    [b EXCEPT !.children = Map(@, LAMBDA lane : IF lane.id = targetId THEN [lane EXCEPT !.children = @ \o <<item>>] ELSE lane)]

LaneIds(b) == {b.children[i].id : i \in 1..Len(b.children)}
\* The select is rendered unless the card is in archive, done or delegated.
StatusSelectShown(b, id) == ~Found(b.data.archive, id) /\ ~Found(b.data.done, id) /\ ~Found(b.data.delegated, id)
StatusTargets(b) == LaneIds(b) \cup (VirtualNames \ {"done"})

statusChange ==
    /\ Gesture
    /\ getSelectedItem(state, selectedItemId) # Null
    /\ StatusSelectShown(state, selectedItemId)
    /\ \E targetId \in StatusTargets(state) :
          LET item == getSelectedItem(state, selectedItemId)
              currentLane == IF InLane(state, item.id) THEN state.children[FirstLaneOf(state, item.id)].id ELSE ""
          IN IF targetId \in VirtualNames
             THEN Commit(setState(Mgr, addItem(removeItem(state, item.id), targetId, item), TRUE), "statusChange")
             ELSE /\ targetId # currentLane
                  /\ Commit(setState(Mgr, addToLanes(removeItem(state, item.id), targetId, item), TRUE), "statusChange")
    /\ UNCHANGED <<selVars, undoVars, archiveAwait, menu>>
    /\ boardFrame

----
\* Initial states: the manager right after its constructor, for a set of document texts.
Todo(cards) == [title |-> "Todo", shouldMarkItemsComplete |-> FALSE, cards |-> cards]
Complete(cards) == [title |-> "Complete", shouldMarkItemsComplete |-> TRUE, cards |-> cards]
Open(t) == Card(<<t>>, FALSE, " ")
Ticked(t) == Card(<<t>>, TRUE, "x")
Doing(t) == Card(<<t>>, TRUE, "/")

GlobalChoices == {[NoSettings EXCEPT !["archive-with-date"] = a] : a \in {"false", "true"}}

InitWith(texts, globals) ==
    /\ state = Undefined
    /\ compiledSettings = NoSettings
    /\ globalSettings \in globals
    /\ viewSet = {"v1"}
    /\ \E text \in texts : viewData = [v \in Views |-> IF v = "v1" THEN text ELSE EmptyText]
    /\ regPc = [v \in Views |-> IF v = "v1" THEN "delay" ELSE "none"]
    /\ regBoard = Undefined
    /\ selectedItemId = NoSelection
    /\ isArchiveOpen = FALSE /\ isDoneOpen = FALSE /\ isDelegatedOpen = FALSE
    /\ isRecurringOpen = FALSE /\ isProposalsOpen = FALSE /\ isWaitingOpen = FALSE
    /\ previousPaneMode = "null"
    /\ lastDeletedBuffer = Null
    /\ deletedFromLane = "none"
    /\ deletedFromBoard = Undefined
    /\ handlerItem = Null
    /\ archiveAwait = Null
    /\ menu = Null
    /\ nextId = 0
    /\ op = "constructor"
    /\ delivered = <<>>
    /\ written = <<>>
    /\ escaped = FALSE
    /\ suppliedSettings = NoSettings
    /\ emptied = 0
    /\ stateReceivers = <<>>
    /\ settingsNotifiers = <<>>
    /\ cleanedUp = {}
    /\ compiledSeen = <<>>
    /\ notified = {}
    /\ events = <<>>

PaneTexts == {BoardText(<<Todo(<<Open("a"), Ticked("b")>>)>>, [NoLists EXCEPT !["done"] = <<Ticked("c")>>], DefaultSettings)}

InitPane == InitWith(PaneTexts, {NoSettings})

NextPane ==
    \/ newBoard
    \/ selectItem
    \/ toggleArchive \/ openArchive \/ closeArchive
    \/ toggleDone \/ openDone \/ closeDone
    \/ toggleDelegated \/ openDelegated \/ closeDelegated
    \/ toggleRecurring \/ openRecurring \/ closeRecurring
    \/ toggleProposals \/ openProposals \/ closeProposals
    \/ toggleWaiting \/ openWaiting \/ closeWaiting

SpecPane == InitPane /\ [][NextPane]_vars

----
OpenCount ==
    Cardinality({i \in 1..6 : <<isArchiveOpen, isDoneOpen, isDelegatedOpen,
                                isRecurringOpen, isProposalsOpen, isWaitingOpen>>[i]})
AnyOpen == OpenCount > 0
PaneOps == {"selectItem", "toggleArchive", "openArchive", "closeArchive",
            "toggleDone", "openDone", "closeDone",
            "toggleDelegated", "openDelegated", "closeDelegated",
            "toggleRecurring", "openRecurring", "closeRecurring",
            "toggleProposals", "openProposals", "closeProposals",
            "toggleWaiting", "openWaiting", "closeWaiting"}

\* C1: after any sequence of selectItem / open / close / toggle calls, at most one of
\* the six overlay flags is true.
C1_AtMostOneOverlay == op \in PaneOps => OpenCount <= 1

\* C2: in every state reached by selectItem / open / close / toggle calls, an open
\* overlay implies selectedItemId is null.
C2_OverlayImpliesNoSelection == (op \in PaneOps /\ AnyOpen) => selectedItemId = NoSelection


----
\* The manager with its board operations.
SpecTexts == {BoardText(<<Todo(<<Open("a"), Ticked("b")>>)>>, NoLists, DefaultSettings), MalformedText}

Init == InitWith(SpecTexts, {NoSettings})

Next ==
    \/ newBoard
    \/ transformThrows
    \/ saveToDiskCall
    \/ archiveCompletedCards
    \/ selectItem
    \/ deleteSelected
    \/ restoreLastDeleted
    \/ forceRefresh
    \/ reparseBoardFromMd

Spec == Init /\ [][Next]_vars

----
\* C3: no write is requested while the live board carries errors: every text handed to a
\* view was serialized from a board with no errors, and view.data changes only in a step
\* that handed that same text to a view.
C3_NoWriteWithErrors ==
    /\ [](\A i \in 1..Len(written) : written[i].errors = 0)
    /\ [][viewData' # viewData =>
            /\ written' # <<>>
            /\ \A v \in viewSet : viewData'[v] = written'[Len(written')].text]_vars

C3_Witness ==
    /\ op = "restoreLastDeleted"
    /\ delivered # <<>>
    /\ Len(state.data.errors) > 0
    /\ written = <<>>

\* C5: when the transform handed to setState throws, setState returns normally, the board
\* keeps its lanes, lists and settings and has exactly one more error, the observers get
\* exactly that board, and nothing is written.
C5_ThrowingTransformRecorded ==
    [][op' = "setState" =>
          /\ ~escaped'
          /\ Structure(state') = Structure(state)
          /\ state'.data.settings = state.data.settings
          /\ Len(state'.data.errors) = Len(state.data.errors) + 1
          /\ SubSeq(state'.data.errors, 1, Len(state.data.errors)) = state.data.errors
          /\ delivered' = <<state'>>
          /\ written' = <<>>
          /\ viewData' = viewData]_vars

C5_Witness ==
    /\ op = "setState"
    /\ Len(state.data.errors) = 1
    /\ AllItems(state) # <<>>
    /\ delivered = <<state>>

\* C6: no exception propagates out of setState, forceRefresh, newBoard, reparseBoardFromMd,
\* archiveCompletedCards or restoreLastDeleted, also when state is still undefined.
C6_NoEscape == ~escaped

----
\* The undo buffer next to lane removal and reordering.
UndoTexts == {BoardText(<<Todo(<<Open("a"), Ticked("b")>>), Complete(<<>>)>>,
                        [NoLists EXCEPT !["archive"] = <<Ticked("c")>>], DefaultSettings)}
InitUndo == InitWith(UndoTexts, {NoSettings})
NextUndo ==
    \/ newBoard
    \/ selectItem
    \/ deleteSelected
    \/ restoreLastDeleted
    \/ laneDeleted
    \/ laneMoved
SpecUndo == InitUndo /\ [][NextUndo]_vars

Containers(b) ==
    [i \in 1..Len(b.children) |-> b.children[i].children] \o [i \in 1..Len(VirtualLanes) |-> b.data[VirtualLanes[i]]]

RecordedContainer(b, loc) ==
    IF loc.type = "lane" THEN b.children[loc.laneIndex + 1].children ELSE b.data[loc.listName]

\* The recorded place still exists: the lane deleted from sits at the recorded index (or the
\* place is a virtual list), and the recorded index is within the container.
RecordedPlaceExists(b, loc) ==
    /\ loc.type = "lane" =>
          /\ loc.laneIndex < Len(b.children)
          /\ b.children[loc.laneIndex + 1].id = deletedFromLane
    /\ loc.itemIndex <= Len(RecordedContainer(b, loc))

\* C7: the undo buffer is a single slot. A deletion overwrites it with the deleted card; a
\* restore with a full buffer empties it, adds nothing but the buffered card and, when the
\* recorded place exists, puts that card at the recorded index; a restore with an empty
\* buffer changes nothing and notifies nobody.
C7_UndoSingleSlot ==
    [][/\ op' = "deleteSelected" => lastDeletedBuffer'.item = getSelectedItem(state, selectedItemId)
       /\ op' = "restoreLastDeleted" =>
            IF lastDeletedBuffer = Null
            THEN state' = state /\ delivered' = <<>> /\ written' = <<>> /\ lastDeletedBuffer' = Null
            ELSE /\ lastDeletedBuffer' = Null
                 /\ Len(Containers(state')) = Len(Containers(state))
                 /\ \A i \in 1..Len(Containers(state)) :
                       WithoutId(Containers(state')[i], lastDeletedBuffer.item.id)
                         = WithoutId(Containers(state)[i], lastDeletedBuffer.item.id)
                 /\ Len(AllItems(state')) <= Len(AllItems(state)) + 1
                 /\ RecordedPlaceExists(state, lastDeletedBuffer.location) =>
                       /\ Len(RecordedContainer(state', lastDeletedBuffer.location))
                            = Len(RecordedContainer(state, lastDeletedBuffer.location)) + 1
                       /\ RecordedContainer(state', lastDeletedBuffer.location)[lastDeletedBuffer.location.itemIndex + 1]
                            = lastDeletedBuffer.item]_vars

\* Two cards were deleted, the second was restored, the first is gone.
C7_Witness ==
    /\ op = "restoreLastDeleted"
    /\ delivered # <<>>
    /\ lastDeletedBuffer = Null
    /\ Len(state.children) = 2
    /\ Len(AllItems(state)) = 2

\* C8: when the lane a card was deleted from no longer sits at the recorded index (removed,
\* or lanes reordered), restoreLastDeleted leaves every lane and every virtual list unchanged.
C8_RestoreNoOpWhenLaneGone ==
    [][(/\ op' = "restoreLastDeleted"
        /\ lastDeletedBuffer # Null
        /\ lastDeletedBuffer.location.type = "lane"
        /\ ~(/\ lastDeletedBuffer.location.laneIndex < Len(state.children)
             /\ state.children[lastDeletedBuffer.location.laneIndex + 1].id = deletedFromLane))
       => Structure(state') = Structure(state)]_vars

----
\* Card moves between lanes and virtual lists.
MoveTexts == {BoardText(<<Todo(<<Open("a")>>), Complete(<<Ticked("b")>>)>>, NoLists, DefaultSettings)}
InitMoves == InitWith(MoveTexts, {NoSettings})
NextMoves ==
    \/ newBoard
    \/ selectItem
    \/ openItemMenu
    \/ dismissMenu
    \/ delegate
    \/ handleArchive
    \/ handleMarkComplete
    \/ handleRestore
    \/ statusChange
    \/ archiveCompletedCards
SpecMoves == InitMoves /\ [][NextMoves]_vars

\* C4: in every board delivered to observers each card id occurs in exactly one location.
C4_EachCardOnce ==
    \A i \in 1..Len(delivered) :
        \A id \in ItemIds(delivered[i]) : Occurrences(delivered[i], id) = 1

----
\* archiveCompletedCards over many documents, next to a lane reorder by another observer.
LaneCards == {<<>>} \cup {<<c>> : c \in {Open("a"), Ticked("b"), Doing("c")}}
                    \cup {<<c, d>> : c \in {Open("a"), Ticked("b")}, d \in {Ticked("d"), Doing("e")}}
ArchiveTexts ==
    {BoardText(<<[title |-> "One", shouldMarkItemsComplete |-> f1, cards |-> c1],
                 [title |-> "Two", shouldMarkItemsComplete |-> f2, cards |-> c2]>>,
               [NoLists EXCEPT !["archive"] = prev], DefaultSettings) :
        f1 \in BOOLEAN, f2 \in BOOLEAN, c1 \in LaneCards,
        c2 \in {<<>>, <<Open("f")>>, <<Ticked("g")>>}, prev \in {<<>>, <<Ticked("z")>>}}
InitArchive == InitWith(ArchiveTexts, GlobalChoices)
NextArchive ==
    \/ newBoard
    \/ archiveCompletedCards
    \/ archiveResume
    \/ laneMoved
SpecArchive == InitArchive /\ [][NextArchive]_vars

Done(item) == item.checked /\ item.checkChar = "x"

\* C9: after archiveCompletedCards with the archive date off, a lane flagged
\* shouldMarkItemsComplete has no cards, any other lane keeps in order the cards that are not
\* checked with the done character, and the archive is its previous content followed by the
\* removed cards in lane order, then card order.
C9_ArchivePolicy ==
    [][(op' = "archiveCompletedCards" /\ Defined(state) /\ archiveAwait = Null /\ archiveAwait' = Null) =>
          /\ Len(state'.children) = Len(state.children)
          /\ \A l \in 1..Len(state.children) :
                /\ state'.children[l].id = state.children[l].id
                /\ state'.children[l].shouldMarkItemsComplete = state.children[l].shouldMarkItemsComplete
                /\ state'.children[l].children =
                      IF state.children[l].shouldMarkItemsComplete THEN <<>>
                      ELSE SelectSeq(state.children[l].children, LAMBDA c : ~Done(c))
          /\ state'.data.archive =
                state.data.archive \o
                Flatten([l \in 1..Len(state.children) |->
                            IF state.children[l].shouldMarkItemsComplete THEN state.children[l].children
                            ELSE SelectSeq(state.children[l].children, Done)])
          /\ \A n \in VirtualNames \ {"archive"} : state'.data[n] = state.data[n]]_vars

C9_Witness ==
    /\ op = "archiveCompletedCards"
    /\ Defined(state)
    /\ archiveAwait = Null
    /\ Falsy(getGlobalSetting(globalSettings, "archive-with-date"))
    /\ Len(state.data.archive) >= 3
    /\ \E l \in 1..Len(state.children) : state.children[l].children # <<>>
    /\ \E l \in 1..Len(state.children) : state.children[l].shouldMarkItemsComplete

\* C10: archiveCompletedCards reads the board and commits within one turn: while a run is
\* between its read and its commit the board is still the one it read.
C10_ReadAndCommitInOneTurn ==
    archiveAwait # Null => state = archiveAwait.board

----
\* compileSettings as a function of its three tiers: the settings handed to it, the
\* board's local settings and the plugin's global settings.
ListKeys == {"metadata-keys", "tag-colors", "tag-sort", "date-colors"}
ValuesOf(k) ==
    IF k \in ToggleKeys \cup RawKeys THEN {"true", "false"}
    ELSE IF k \in ListKeys THEN ListLiterals
    ELSE IF k = frontmatterKey THEN {"board", "list"}
    ELSE IF k = "tag-action" THEN {"kanban", "obsidian"}
    ELSE IF k \in {"date-format", "date-display-format"} THEN {"DD/MM", DefaultDateFormat}
    ELSE {"A", "B"}

\* The settings objects that define at most one key of keys.
Tier(keys) == {NoSettings} \cup UNION {{[NoSettings EXCEPT ![k] = v] : v \in ValuesOf(k)} : k \in keys}
InputKeys == CompiledKeys \ {"date-time-display-format"}
Families == {{k} : k \in InputKeys \ FormatKeys} \cup {FormatKeys}
LocalOf(t) == IF t[frontmatterKey] = Undef THEN [t EXCEPT ![frontmatterKey] = "board"] ELSE t
TierTexts(keys) == {BoardText(<<Todo(<<Open("a")>>)>>, NoLists, LocalOf(t)) : t \in Tier(keys)}

\* The keys a call's supplied settings are drawn over: the family of the key the
\* document or the plugin sets, and every key when they set none.
KeysInPlay ==
    LET loc == viewData[getAView].settings
        touched == {k \in InputKeys : globalSettings[k] # Undef \/ loc[k] # LocalOf(NoSettings)[k]}
    IN IF touched = {} THEN InputKeys ELSE UNION {f \in Families : f \cap touched # {}}

compileSettingsCall ==
    /\ Registered
    /\ \E sup \in Tier(KeysInPlay) :
          /\ suppliedSettings' = sup
          /\ UNCHANGED hookVars
          /\ compiledSettings' = compileSettings(state, globalSettings, sup)
    /\ op' = "compileSettings"
    /\ delivered' = <<>> /\ written' = <<>> /\ escaped' = FALSE /\ compiledSeen' = <<>> /\ notified' = {} /\ events' = <<>>
    /\ UNCHANGED <<state, viewData, nextId, globalSettings, emptied, regVars, paneVars, selVars,
                   undoVars, archiveAwait, menu>>

InitCompile == \E f \in Families : InitWith(TierTexts(f), Tier(f))
NextCompile ==
    \/ newBoard
    \/ compileSettingsCall
SpecCompile == InitCompile /\ [][NextCompile]_vars

\* The three tiers of key k, and the value the highest defining tier gives it (d when none does).
Local(k) == IF Defined(state) THEN state.data.settings[k] ELSE Undef
Tiered(k, d) ==
    IF suppliedSettings[k] # Undef THEN suppliedSettings[k]
    ELSE IF Local(k) # Undef THEN Local(k)
    ELSE IF globalSettings[k] # Undef THEN globalSettings[k]
    ELSE d
Fallback(k) ==
    IF k \in OrKeys \cup NullishKeys THEN BuiltIn[k]
    ELSE IF k = "date-format" THEN DefaultDateFormat
    ELSE IF k = "time-format" THEN DefaultTimeFormat
    ELSE IF k = "date-display-format" THEN compiledSettings["date-format"]
    ELSE IF k = "archive-date-format"
         THEN compiledSettings["date-format"] \o " " \o compiledSettings["time-format"]
    ELSE IF k = "archive-date-separator" THEN ""
    ELSE "null"
Compiled == op = "compileSettings"

\* C11: after compileSettings(supplied), every compiled key that is resolved by precedence
\* holds the value of the highest tier that defines it (supplied, then local, then
\* global), and the key's default when no tier defines it.
C11_TierPrecedence ==
    Compiled => \A k \in InputKeys \ {"metadata-keys"} : compiledSettings[k] = Tiered(k, Fallback(k))

Unset(k) == Tiered(k, Undef) = Undef

\* C12: the compiled date-format is the local value if defined, else the global one, else
\* the host-derived default; date-display-format, when no tier sets it, is the compiled
\* date-format, and archive-date-format, when no tier sets it, is the compiled date-format,
\* a space and the compiled time-format.
C12_DateFormatChain ==
    Compiled =>
        /\ suppliedSettings["date-format"] = Undef =>
                compiledSettings["date-format"] =
                    (IF Local("date-format") # Undef THEN Local("date-format")
                     ELSE IF globalSettings["date-format"] # Undef THEN globalSettings["date-format"]
                     ELSE DefaultDateFormat)
        /\ Unset("date-display-format") =>
                compiledSettings["date-display-format"] = compiledSettings["date-format"]
        /\ Unset("archive-date-format") =>
                compiledSettings["archive-date-format"] =
                    compiledSettings["date-format"] \o " " \o compiledSettings["time-format"]
C12_Witness ==
    /\ Compiled
    /\ suppliedSettings = NoSettings
    /\ Local("date-format") = Undef
    /\ globalSettings["date-format"] = "DD/MM"
    /\ compiledSettings["date-display-format"] = "DD/MM"
    /\ compiledSettings["archive-date-format"] = "DD/MM HH:mm"

ElementsOf(v) == {Elems(v)[i] : i \in 1..Len(Elems(v))}

\* C13: the compiled metadata-keys holds exactly the keys of the global list and of the
\* local list (of the supplied list when one is supplied), each of them once.
C13_MetadataKeysUnion ==
    Compiled =>
        /\ ElementsOf(compiledSettings["metadata-keys"]) =
                ElementsOf(globalSettings["metadata-keys"]) \cup ElementsOf(Tiered("metadata-keys", Undef))
        /\ Cardinality(ElementsOf(compiledSettings["metadata-keys"])) =
                Len(Elems(compiledSettings["metadata-keys"]))
C13_Witness ==
    /\ Compiled
    /\ suppliedSettings["metadata-keys"] = Undef
    /\ globalSettings["metadata-keys"] = "[a,a]"
    /\ Local("metadata-keys") = "[b,a]"
    /\ compiledSettings["metadata-keys"] = "[a,b]"

\* C14: each display toggle compiles to true when no tier sets it, and to false when the
\* highest tier that sets it sets false.
C14_TogglesDefaultTrue ==
    Compiled =>
        \A k \in ToggleKeys :
            /\ Unset(k) => compiledSettings[k] = "true"
            /\ Tiered(k, Undef) = "false" => compiledSettings[k] = "false"
C14_Witness ==
    /\ Compiled
    /\ suppliedSettings["show-search"] = Undef
    /\ Local("show-search") = "false"
    /\ globalSettings["show-search"] = "true"
    /\ compiledSettings["show-search"] = "false"
    /\ compiledSettings["show-add-list"] = "true"

----
\* Priority markers in a card's titleRaw. A titleRaw is a sequence of tokens; the text
\* "[priority::high]" is the token "[priority::" followed at once by the token "high]".
MaxTokens == 4
Priorities == {"standard", "high", "low"}
Closing(p) == p \o "]"
TitleTokens == {"a", " ", "[priority::"} \cup {Closing(p) : p \in Priorities}
Titles == UNION {[1..n -> TitleTokens] : n \in 0..MaxTokens}

\* A match of /\[priority::(standard|high|low)\]/ at position i (1-based).
MatchAt(t, i, ps) == i < Len(t) /\ t[i] = "[priority::" /\ t[i + 1] \in {Closing(p) : p \in ps}

\* replace(PRIORITY_REGEX, ''): one pass from the left over the original text.
RECURSIVE RemovePriority(_)
RemovePriority(t) ==
    IF t = <<>> THEN <<>>
    ELSE IF MatchAt(t, 1, Priorities) THEN RemovePriority(SubSeq(t, 3, Len(t)))
    ELSE <<t[1]>> \o RemovePriority(Tail(t))

RECURSIVE trim(_)
trim(t) ==
    IF t = <<>> THEN <<>>
    ELSE IF t[1] = " " THEN trim(Tail(t))
    ELSE IF t[Len(t)] = " " THEN trim(SubSeq(t, 1, Len(t) - 1))
    ELSE t

getPriorityFromTitle(t) ==
    IF \E i \in 1..Len(t) : MatchAt(t, i, {"high", "low"})
    THEN LET i == CHOOSE j \in 1..Len(t) :
                      MatchAt(t, j, {"high", "low"}) /\ \A h \in 1..(j - 1) : ~MatchAt(t, h, {"high", "low"})
         IN IF t[i + 1] = Closing("high") THEN "high" ELSE "low"
    ELSE "standard"

updatePriorityInTitle(t, newPriority) ==
    LET cleaned == trim(RemovePriority(t))
    IN IF newPriority = "standard" THEN cleaned
       ELSE cleaned \o <<" ", "[priority::", Closing(newPriority)>>

\* The other inline annotations. A well-formed [notes::...], [client::...] or @{date}
\* annotation is one token of the title. The text of a notes annotation is URL-encoded:
\* getNotesFromTitle decodes it and updateNotesInTitle encodes it again.
NotesTokens == {"[notes::]", "[notes::n]", "[notes::a b]", "[notes::a%20b]"}
ClientTokens == {"[client::LMH]"}
DateTokens == {"@{2024-01-01}", "@{2024-02-02}"}
decodeURIComponent(tok) ==
    IF tok = "[notes::]" THEN "" ELSE IF tok = "[notes::n]" THEN "n" ELSE "a b"
encodeURIComponent(notes) == IF notes = "n" THEN "[notes::n]" ELSE "[notes::a%20b]"

\* replace(NOTES_REGEX, ''): every notes annotation is dropped.
RemoveNotes(t) == SelectSeq(t, LAMBDA tok : tok \notin NotesTokens)
\* replace(ARCHIVE_DATE_REGEX, ''): the pattern has no g flag, the first stamp is dropped.
RemoveFirstDate(t) ==
    IF \E i \in 1..Len(t) : t[i] \in DateTokens
    THEN LET i == CHOOSE j \in 1..Len(t) : t[j] \in DateTokens /\ \A h \in 1..(j - 1) : t[h] \notin DateTokens
         IN SubSeq(t, 1, i - 1) \o SubSeq(t, i + 1, Len(t))
    ELSE t

getNotesFromTitle(t) ==
    IF \E i \in 1..Len(t) : t[i] \in NotesTokens
    THEN decodeURIComponent(t[CHOOSE j \in 1..Len(t) : t[j] \in NotesTokens /\ \A h \in 1..(j - 1) : t[h] \notin NotesTokens])
    ELSE ""

updateNotesInTitle(t, notes) ==
    LET cleaned == trim(RemoveNotes(t))
    IN IF notes = "" THEN cleaned ELSE cleaned \o <<" ", encodeURIComponent(notes)>>

\* The detail pane's displayTitle: the title without priority, notes and archive date.
displayTitle(item) == trim(RemoveFirstDate(RemoveNotes(RemovePriority(item.titleRaw))))
updateContent(board, id, newTitleRaw) ==
    [board EXCEPT !.children = Map(@, LAMBDA lane :
        [lane EXCEPT !.children = Map(@, LAMBDA child :
            IF child.id = id THEN updateItemContent(child, newTitleRaw) ELSE child)])]

\* The titleRaw updatePriority hands to updateContent.
priorityEdit(item, newPriority) ==
    updateNotesInTitle(updatePriorityInTitle(displayTitle(item), newPriority),
                       getNotesFromTitle(item.titleRaw))

updatePriority ==
    /\ Gesture
    /\ getSelectedItem(state, selectedItemId) # Null
    /\ \E newPriority \in Priorities :
          LET item == getSelectedItem(state, selectedItemId)
              newTitleRaw == priorityEdit(item, newPriority)
          IN Commit(setState(Mgr, updateContent(state, item.id, newTitleRaw), TRUE), "updatePriority")
    /\ UNCHANGED <<selVars, undoVars, archiveAwait, menu>>
    /\ boardFrame

\* The item menu's "Set high priority" / "Remove high priority" entry.
updateItem(board, path, item) ==
    [board EXCEPT !.children[path[1] + 1].children[path[2] + 1] = item]
highPriority ==
    /\ Defined(state)
    /\ menu # Null
    /\ menu.path[1] < Len(state.children)
    /\ menu.path[2] < Len(state.children[menu.path[1] + 1].children)
    /\ LET hasPriority == \E i \in 1..Len(menu.item.titleRaw) : MatchAt(menu.item.titleRaw, i, {"high"})
           cleaned == trim(RemovePriority(menu.item.titleRaw))
           newTitleRaw == IF hasPriority THEN cleaned ELSE cleaned \o <<" ", "[priority::", Closing("high")>>
       IN Commit(setState(Mgr, updateItem(state, menu.path, updateItemContent(menu.item, newTitleRaw)), TRUE),
                 "highPriority")
    /\ menu' = Null
    /\ UNCHANGED <<selVars, undoVars, archiveAwait>>
    /\ boardFrame

PriorityTexts == {BoardText(<<Todo(<<Card(t, FALSE, " ")>>)>>, NoLists, DefaultSettings) : t \in Titles}
InitPriority == InitWith(PriorityTexts, {NoSettings})
NextPriority ==
    \/ newBoard
    \/ selectItem
    \/ updatePriority
    \/ openItemMenu
    \/ highPriority
SpecPriority == InitPriority /\ [][NextPriority]_vars

PriorityMarkers(t) == Cardinality({i \in 1..Len(t) : MatchAt(t, i, Priorities)})
CardTitles == IF Defined(state) THEN {AllItems(state)[i].titleRaw : i \in 1..Len(AllItems(state))} ELSE {}

\* C15: for the titleRaw t of any card and p in {high, low}, updatePriorityInTitle(t, p)
\* holds exactly one priority marker, getPriorityFromTitle reads p from it, and applying
\* the update again changes nothing; with p = standard the result holds no marker and
\* reads as standard.
C15_PriorityRoundTrip ==
    \A t \in CardTitles :
        /\ \A p \in {"high", "low"} :
              LET u == updatePriorityInTitle(t, p)
              IN /\ PriorityMarkers(u) = 1
                 /\ getPriorityFromTitle(u) = p
                 /\ updatePriorityInTitle(u, p) = u
        /\ PriorityMarkers(updatePriorityInTitle(t, "standard")) = 0
        /\ getPriorityFromTitle(updatePriorityInTitle(t, "standard")) = "standard"

----
\* setState with candidates that change the board's local settings (the settings modal
\* hands setState a board carrying the edited settings), and the plugin's global settings
\* changing underneath the manager.
LocalEdits(b) ==
    {[b.data.settings EXCEPT !["date-format"] = d, !["show-search"] = h] :
        d \in {Undef, "DD/MM", DefaultDateFormat}, h \in {Undef, "false"}}
WithSettings(b, settings) == [b EXCEPT !.data.settings = settings]

setSettingsCall(shape, name) ==
    /\ \E settings \in LocalEdits(state), shouldSave \in BOOLEAN :
          /\ shouldRefreshBoard(state.data.settings, settings) =>
                nextId + IdsNeeded(viewData[getAView]) <= MaxIds
          /\ Commit(setState(Mgr, WithSettings(shape, settings), shouldSave), name)
    /\ UNCHANGED <<selVars, undoVars, archiveAwait, menu>>
    /\ boardFrame

settingsChanged == Gesture /\ setSettingsCall(state, "setSettings")
settingsAndLaneChanged ==
    /\ Gesture
    /\ Len(state.children) >= 1
    /\ setSettingsCall(deleteLane(state, 0), "setSettingsAndDeleteLane")

SettingsGlobals == {NoSettings, [NoSettings EXCEPT !["date-format"] = "DD/MM"]}
globalSettingsChanged ==
    /\ Registered
    /\ globalSettings' \in SettingsGlobals \ {globalSettings}
    /\ op' = "globalSettings"
    /\ delivered' = <<>> /\ written' = <<>> /\ escaped' = FALSE /\ compiledSeen' = <<>> /\ notified' = {} /\ events' = <<>>
    /\ UNCHANGED <<mgrVars, suppliedSettings, emptied, hookVars, regVars, paneVars, selVars, undoVars, archiveAwait, menu>>

SettingsTexts == {BoardText(<<Todo(<<Open("a")>>)>>, NoLists, DefaultSettings)}
InitSettings == InitWith(SettingsTexts, SettingsGlobals)
NextSettings ==
    \/ newBoard
    \/ settingsChanged
    \/ settingsAndLaneChanged
    \/ transformThrows
    \/ laneDeleted
    \/ globalSettingsChanged
    \/ forceRefresh
SpecSettings == InitSettings /\ [][NextSettings]_vars

SettingsOps == {"setSettings", "setSettingsAndDeleteLane"}
SetStateOps == SettingsOps \cup {"newBoard", "setState", "deleteLane"}
Shapes(b) == {b} \cup (IF Len(b.children) >= 1 THEN {deleteLane(b, 0)} ELSE {})

\* C16: when setState is handed a candidate whose settings differ from the board's in a
\* parse-affecting way, the board it leaves is the same for every candidate carrying
\* those settings, whatever lanes and cards the candidate has, and it carries the
\* candidate's settings.
C16_RefreshIgnoresCandidateShape ==
    [][(op' \in SettingsOps /\ shouldRefreshBoard(state.data.settings, state'.data.settings)) =>
          \A shape \in Shapes(state), shouldSave \in BOOLEAN :
              LET candidate == WithSettings(shape, state'.data.settings)
                  result == SetStateValue(Mgr, candidate, shouldSave).state
              IN result = state' /\ result.data.settings = candidate.data.settings]_vars
C16_Witness ==
    /\ op = "setSettingsAndDeleteLane"
    /\ state.data.settings["date-format"] = "DD/MM"
    /\ Len(state.children) = 1
    /\ delivered = <<state>>

\* C17: when a setState call has returned (a value or a transform, the re-parse or the
\* plain branch, or the path that records an error), compiledSettings is the compilation
\* of the live board's local settings with the global settings, and every receiver was
\* called with the settings already recompiled for the board it was handed.
C17_CompiledFollowsBoard ==
    (op \in SetStateOps /\ ~escaped) =>
        /\ compiledSettings = compileSettings(state, globalSettings, NoSettings)
        /\ Len(compiledSeen) = Len(delivered)
        /\ \A i \in 1..Len(delivered) :
              compiledSeen[i] = compileSettings(delivered[i], globalSettings, NoSettings)
C17_Witness ==
    /\ op = "setState"
    /\ Len(state.data.errors) >= 1
    /\ delivered = <<state>>
    /\ Local("date-format") = Undef
    /\ globalSettings["date-format"] = "DD/MM"
    /\ compiledSeen = <<compiledSettings>>
    /\ compiledSettings["date-format"] = "DD/MM"

\* C18: setState and forceRefresh invoke the listeners of a settings key only if the
\* key's resolved value differs between the compilation before and the one after.
C18_ListenersOnlyOnChange ==
    [][op' \in SetStateOps \cup {"forceRefresh"} =>
          \A k \in notified' :
              getSetting(state, compiledSettings, globalSettings, k, NoSettings)
                  # getSetting(state', compiledSettings', globalSettings', k, NoSettings)]_vars

----
\* Attaching further views and detaching views (StateManager.ts 74-99).
MaxEmptied == 2

\* registerView up to its delay: the view joins viewSet; a view opened on the same file
\* holds the file's text.
registerView(v) ==
    /\ v \notin viewSet
    /\ Registered
    /\ nextId + IdsNeeded(IF viewSet = {} THEN viewData[v] ELSE viewData[getAView]) <= MaxIds
    /\ Defined(state) => Len(state.data.errors) < MaxErrors
    /\ viewSet' = viewSet \cup {v}
    /\ regPc' = [regPc EXCEPT ![v] = "delay"]
    /\ viewData' = [viewData EXCEPT ![v] = IF viewSet = {} THEN @ ELSE viewData[getAView]]
    /\ op' = "registerView"
    /\ delivered' = <<>> /\ written' = <<>> /\ escaped' = FALSE /\ compiledSeen' = <<>> /\ notified' = {} /\ events' = <<>>
    /\ UNCHANGED <<state, compiledSettings, nextId, regBoard, envVars, paneVars, selVars, undoVars,
                   archiveAwait, menu>>

\* unregisterView that reports the manager empty on every call.
UnregisterAlwaysEmpty(v) ==
    /\ viewSet' = viewSet \ {v}
    /\ emptied' = emptied + 1

unregisterView(v) ==
    IF v \in viewSet
    THEN /\ viewSet' = viewSet \ {v}
         /\ emptied' = IF viewSet \ {v} = {} THEN emptied + 1 ELSE emptied
    ELSE UNCHANGED <<viewSet, emptied>>

viewClosed ==
    /\ emptied < MaxEmptied
    /\ \E v \in Views :
          /\ regPc[v] \in {"none", "ready", "failed"}
          /\ unregisterView(v)
          /\ regPc' = [regPc EXCEPT ![v] = "none"]
    /\ op' = "unregisterView"
    /\ delivered' = <<>> /\ written' = <<>> /\ escaped' = FALSE /\ compiledSeen' = <<>> /\ notified' = {} /\ events' = <<>>
    /\ UNCHANGED <<mgrVars, regBoard, globalSettings, suppliedSettings, hookVars, paneVars, selVars, undoVars,
                   archiveAwait, menu>>

viewOpened == \E v \in Views : registerView(v)

ViewTexts == {BoardText(<<Todo(<<Open("a")>>)>>, NoLists, DefaultSettings), MalformedText}
InitViews == InitWith(ViewTexts, {NoSettings})
NextViews ==
    \/ newBoard
    \/ viewOpened
    \/ viewClosed
    \/ selectItem
SpecViews == InitViews /\ [][NextViews]_vars

\* C19: onEmpty is invoked exactly when unregisterView removes the last registered view:
\* not while another view stays registered, not for a view that is not registered, and
\* once for each time the set of views becomes empty.
C19_OnEmptyExactlyOnLastDetach ==
    [][emptied' = emptied + (IF viewSet # {} /\ viewSet' = {} THEN 1 ELSE 0)]_vars
C19_Witness ==
    /\ op = "unregisterView"
    /\ viewSet = {}
    /\ emptied = MaxEmptied
    /\ Defined(state)

----
\* Opening one pane.
PaneFlag(n) ==
    IF n = "archive" THEN isArchiveOpen
    ELSE IF n = "done" THEN isDoneOpen
    ELSE IF n = "delegated" THEN isDelegatedOpen
    ELSE IF n = "recurring" THEN isRecurringOpen
    ELSE IF n = "proposals" THEN isProposalsOpen
    ELSE isWaitingOpen
TurnOnOps(n) ==
    IF n = "archive" THEN {"openArchive", "toggleArchive"}
    ELSE IF n = "done" THEN {"openDone", "toggleDone"}
    ELSE IF n = "delegated" THEN {"openDelegated", "toggleDelegated"}
    ELSE IF n = "recurring" THEN {"openRecurring", "toggleRecurring"}
    ELSE IF n = "proposals" THEN {"openProposals", "toggleProposals"}
    ELSE {"openWaiting", "toggleWaiting"}

\* C20: after open<Pane> for a pane P, or a toggle that turned P on, P's flag is true,
\* the other five flags are false and no card is selected, whatever the state before.
C20_OpenLeavesOnlyThatPane ==
    \A n \in VirtualNames :
        (op \in TurnOnOps(n) /\ (PaneFlag(n) \/ op \in {"openArchive", "openDone", "openDelegated",
                                                       "openRecurring", "openProposals", "openWaiting"})) =>
            /\ PaneFlag(n)
            /\ \A other \in VirtualNames \ {n} : ~PaneFlag(other)
            /\ selectedItemId = NoSelection

----
\* C21: after selectItem(id) with a non-null id, from any prior state, that card is the
\* selected one and all six overlay flags are false.
C21_SelectClosesOverlays ==
    (op = "selectItem" /\ selectedItemId # NoSelection) =>
        /\ selectedItemId \in ItemIds(state)
        /\ \A n \in VirtualNames : ~PaneFlag(n)

----
\* archiveCompletedCards with the archive date on, when parser.updateItemContent throws for
\* a card to be archived: appendArchiveDate runs inside archived.map(...), in the argument
\* of setState and inside the try, so the catch hands the exception to setError.
ShouldAppendArchiveDate ==
    ~Falsy(getSetting(state, compiledSettings, globalSettings, "archive-with-date", NoSettings))

\* The failure surfacing after the cards were moved.
ArchiveRewriteThrowsAfterMove ==
    /\ archiveAwait = Null
    /\ Defined(state)
    /\ ShouldAppendArchiveDate
    /\ Archived(state) # <<>>
    /\ Len(state.data.errors) < MaxErrors
    /\ LET moved == SetStateValue(Mgr, ArchiveUpdate(state, ArchivedLanes(state), Archived(state)), FALSE)
       IN Commit(setError(moved, "updateItemContent"), "archiveCompletedCards:throw")
    /\ UNCHANGED <<selVars, undoVars, menu, archiveAwait>>
    /\ boardFrame

archiveRewriteThrows ==
    /\ archiveAwait = Null
    /\ Defined(state)
    /\ ShouldAppendArchiveDate
    /\ Archived(state) # <<>>
    /\ Len(state.data.errors) < MaxErrors
    /\ Commit(setError(Mgr, "updateItemContent"), "archiveCompletedCards:throw")
    /\ UNCHANGED <<selVars, undoVars, menu, archiveAwait>>
    /\ boardFrame

RewriteTexts ==
    {BoardText(<<[title |-> "One", shouldMarkItemsComplete |-> f1, cards |-> c1]>>,
               [NoLists EXCEPT !["archive"] = prev], DefaultSettings) :
        f1 \in BOOLEAN, c1 \in LaneCards, prev \in {<<>>, <<Ticked("z")>>}}
InitRewrite == InitWith(RewriteTexts, GlobalChoices)
NextRewrite ==
    \/ newBoard
    \/ archiveCompletedCards
    \/ archiveResume
    \/ archiveRewriteThrows
SpecRewrite == InitRewrite /\ [][NextRewrite]_vars

\* C22: with the archive date on, when rewriting the text of a card to be archived throws,
\* archiveCompletedCards moves no card (every lane and every virtual list, the archive
\* included, is as before the call) and the failure is one new entry of the error list.
C22_RewriteFailureMovesNothing ==
    [][op' = "archiveCompletedCards:throw" =>
          /\ state'.children = state.children
          /\ \A n \in VirtualNames : state'.data[n] = state.data[n]
          /\ state'.data.settings = state.data.settings
          /\ state'.data.errors = Append(state.data.errors, "updateItemContent")
          /\ written' = <<>>]_vars
C22_Witness ==
    /\ op = "archiveCompletedCards:throw"
    /\ state.data.errors = <<"updateItemContent">>
    /\ Len(Archived(state)) = 2
    /\ state.data.archive = <<>>
    /\ delivered = <<state>>

----
\* Parsing and serializing documents of every kind; the host replaces the text of the
\* file (KanbanView.setViewData, outside src/) and the manager re-parses it.
setViewData ==
    /\ Registered
    /\ viewSet # {}
    /\ \E text \in {EmptyText, BlankText, MalformedText} :
          viewData' = [v \in Views |-> IF v \in viewSet THEN text ELSE viewData[v]]
    /\ op' = "setViewData"
    /\ delivered' = <<>> /\ written' = <<>> /\ escaped' = FALSE /\ compiledSeen' = <<>> /\ notified' = {} /\ events' = <<>>
    /\ UNCHANGED <<state, compiledSettings, nextId, envVars, regVars, paneVars, selVars, undoVars,
                   archiveAwait, menu>>

ParseTexts ==
    {EmptyText, BlankText, MalformedText,
     BoardText(<<Todo(<<Ticked("a")>>)>>, NoLists, DefaultSettings),
     BoardText(<<Complete(<<>>)>>, [NoLists EXCEPT !["done"] = <<Ticked("b")>>], DefaultSettings),
     BoardText(<<>>, [NoLists EXCEPT !["archive"] = <<Open("c")>>, !["waiting"] = <<Doing("d")>>], DefaultSettings)}
InitParse == InitWith(ParseTexts, {NoSettings})
NextParse ==
    \/ newBoard
    \/ setViewData
    \/ reparseBoardFromMd
    \/ saveToDiskCall
    \/ laneDeleted
SpecParse == InitParse /\ [][NextParse]_vars

IsDefaultBoard(b) ==
    /\ b.children = <<>>
    /\ \A n \in VirtualNames : b.data[n] = <<>>
    /\ b.data.settings = DefaultSettings

\* C23: getParsedBoard never throws. For an empty text and for a text of white space only
\* it returns the default board (no lanes, six empty virtual lists, no errors) and the
\* parser hands out no id; when the parser throws it returns the default board with
\* exactly one error entry, and saveToDisk writes nothing for that board.
C23_ParseNeverThrows ==
    \A v \in viewSet :
        LET text == viewData[v]
            board == getParsedBoard(text, nextId)
        IN /\ ~IsThrow(board)
           /\ text.kind \in {"empty", "blank"} =>
                 IsDefaultBoard(board) /\ board.data.errors = <<>> /\ IdsNeeded(trimText(text)) = 0
           /\ text.kind = "malformed" =>
                 /\ IsDefaultBoard(board)
                 /\ Len(board.data.errors) = 1
                 /\ saveToDisk([Mgr EXCEPT !.state = board]).written = <<>>
C23_Witness ==
    /\ op = "saveToDisk"
    /\ viewData["v1"] = MalformedText
    /\ IsDefaultBoard(state)
    /\ Len(state.data.errors) = 1
    /\ written = <<>>

Shape(b) ==
    [lanes |-> Map(b.children, LAMBDA l : [title |-> l.title,
                                          shouldMarkItemsComplete |-> l.shouldMarkItemsComplete,
                                          cards |-> Map(l.children, StripItem)]),
     lists |-> [n \in VirtualNames |-> Map(b.data[n], StripItem)]]

----
Before(first, then) ==
    \A i \in 1..Len(events) : \A j \in 1..Len(events) :
        (events[i] = first /\ events[j] = then) => i < j

\* C27: within one setState call that persists, every state receiver is called with the
\* new board before the serialized text is handed to a view, and the settings listeners
\* are called after the state receivers.
C27_ReceiversThenWrite ==
    op \in SetStateOps => (Before("receiver", "write") /\ Before("receiver", "listener"))

----
\* setState when one of the parties it calls throws after the candidate was accepted.
\* at names the party that throws: the settings compilation, a view's hook or a state
\* receiver; times is the number of consecutive setState calls on which that party
\* throws (the catch hands the error to setError, which calls setState again and so
\* calls the same parties again).
MaxThrows == 2
FaultPoints == {"compile", "hook", "receiver"}

RECURSIVE SetStateFaulty(_, _, _, _, _)
SetStateFaulty(m, newState, shouldSave, at, times) ==
    IF times = 0 THEN SetStateValue(m, newState, shouldSave)
    ELSE LET refresh == Defined(m.state) /\ shouldRefreshBoard(m.state.data.settings, newState.data.settings)
             swapped == [m EXCEPT !.state.data.settings = newState.data.settings]
             placed == IF refresh THEN swapped ELSE [m EXCEPT !.state = newState]
             assigned == IF refresh
                         THEN LET c == [swapped EXCEPT !.compiledSettings = compileSettings(swapped.state, globalSettings, NoSettings)]
                              IN reparseBoard(c)
                         ELSE [m EXCEPT !.state = newState,
                                        !.compiledSettings = compileSettings(newState, globalSettings, NoSettings)]
             saved == IF shouldSave THEN saveToDisk(assigned) ELSE assigned
             failed == CASE at = "compile" -> placed
                         [] at = "hook" -> assigned
                         [] at = "receiver" -> saved
             caught == [failed EXCEPT !.events = Append(@, "setError")]
         IN SetStateFaulty(caught, PushError(caught.state, "fault"), FALSE, at, times - 1)

setStateFault ==
    /\ Gesture
    /\ \E shape \in Shapes(state), settings \in LocalEdits(state), shouldSave \in BOOLEAN,
          at \in FaultPoints, times \in 1..MaxThrows :
          /\ Len(state.data.errors) + times <= MaxErrors
          /\ shouldRefreshBoard(state.data.settings, settings) =>
                nextId + IdsNeeded(viewData[getAView]) <= MaxIds
          /\ Commit(SetStateFaulty(Mgr, WithSettings(shape, settings), shouldSave, at, times), "setState:fault")
    /\ UNCHANGED <<selVars, undoVars, archiveAwait, menu>>
    /\ boardFrame

FaultTexts == {BoardText(<<Todo(<<Open("a")>>), Complete(<<Ticked("b")>>)>>, NoLists, DefaultSettings)}
InitFault == InitWith(FaultTexts, {NoSettings})
NextFault ==
    \/ newBoard
    \/ settingsChanged
    \/ laneDeleted
    \/ setStateFault
SpecFault == InitFault /\ [][NextFault]_vars

Count(seq, e) == Cardinality({i \in 1..Len(seq) : seq[i] = e})

\* C25: a setState in which a receiver, a view hook or the settings compilation throws
\* after the candidate was accepted ends with exactly one more error entry on the board,
\* recorded by one error-recording transition that does not fail and re-enter.
C25_FailureRecordedOnce ==
    [][op' = "setState:fault" =>
         /\ Len(state'.data.errors) = Len(state.data.errors) + 1
         /\ Count(events', "setError") = 1]_vars

\* C26: when setState fails after it started to apply the candidate, the board afterwards
\* is the board from before the call with the error entry appended: neither the
\* candidate's settings nor its lanes and cards are kept.
C26_FailureKeepsOldBoard ==
    [][(op' = "setState:fault" /\ Count(events', "setError") = 1) =>
         state' = PushError(state, "fault")]_vars

----
\* registerView(view, data, false): a further view of a document whose manager exists.
\* Its three steps are separated by awaits, so the steps of another registerView can
\* run in between: attach and start the delay; after the delay, view.prerender(this.state);
\* after the prerender, view.populateViewState(this.state.data.settings), which throws
\* when the board is still undefined.
NoOutput ==
    /\ delivered' = <<>> /\ written' = <<>> /\ compiledSeen' = <<>> /\ notified' = {} /\ events' = <<>>

registerViewAttach(v) ==
    /\ v \notin viewSet
    /\ viewSet # {}
    /\ viewSet' = viewSet \cup {v}
    /\ regPc' = [regPc EXCEPT ![v] = "delay:render"]
    /\ viewData' = [viewData EXCEPT ![v] = viewData[getAView]]
    /\ op' = "registerView:attach"
    /\ NoOutput /\ escaped' = FALSE
    /\ UNCHANGED <<state, compiledSettings, nextId, regBoard, envVars, paneVars, selVars, undoVars,
                   archiveAwait, menu>>

registerViewPrerender(v) ==
    /\ regPc[v] = "delay:render"
    /\ regPc' = [regPc EXCEPT ![v] = "prerender:render"]
    /\ op' = "registerView:prerender"
    /\ NoOutput /\ escaped' = FALSE
    /\ UNCHANGED <<mgrVars, viewSet, regBoard, envVars, paneVars, selVars, undoVars, archiveAwait, menu>>

registerViewPopulate(v) ==
    /\ regPc[v] = "prerender:render"
    /\ regPc' = [regPc EXCEPT ![v] = IF Defined(state) THEN "ready" ELSE "failed"]
    /\ op' = "registerView:populate"
    /\ NoOutput /\ escaped' = ~Defined(state)
    /\ UNCHANGED <<mgrVars, viewSet, regBoard, envVars, paneVars, selVars, undoVars, archiveAwait, menu>>

registerViewRender ==
    \E v \in Views : registerViewAttach(v) \/ registerViewPrerender(v) \/ registerViewPopulate(v)

AttachTexts == {BoardText(<<Todo(<<Open("a")>>)>>, NoLists, DefaultSettings), EmptyText, MalformedText}
InitAttach == InitWith(AttachTexts, {NoSettings})
NextAttach ==
    \/ newBoard
    \/ registerViewRender
    \/ viewClosed
    \/ selectItem
    \/ laneDeleted
SpecAttach == InitAttach /\ [][NextAttach]_vars

\* C28: whenever a registerView call made with shouldParseData = false reaches its render
\* step (the prerender, then the read of the board's settings), the manager's board is
\* defined, however the call is interleaved with the first view's registration.
C28_RenderSeesBoard ==
    op \in {"registerView:prerender", "registerView:populate"} => Defined(state)

----
\* The React hooks of the manager. Each component instance c that calls a hook owns the
\* React setter the hook made for it. useState's effect pushes an arrow function that
\* wraps the setter and its cleanup removes the setter itself; useSetting's effect pushes
\* a function named receiver and its cleanup removes that same function.
Components == {"c1"}
HookKeys == {"date-format", "show-search"}

Setter(c) == [fn |-> "setState", of |-> c]
Wrapper(c) == [fn |-> "(state) => setState(state)", of |-> c]
Receiver(c, key) == [fn |-> "receiver", of |-> c, key |-> key]

\* Array.prototype.remove(target): every element identical to target is dropped.
Remove(array, target) == SelectSeq(array, LAMBDA fn : fn # target)
InArray(array, fn) == \E i \in 1..Len(array) : array[i] = fn

useStateCleanupRemove(c) == Remove(stateReceivers, Setter(c))
useSettingCleanupRemove(c, key) == Remove(settingsNotifiers, Receiver(c, key))

hookFrame ==
    /\ Defined(state)
    /\ NoOutput /\ escaped' = FALSE
    /\ UNCHANGED <<mgrVars, globalSettings, suppliedSettings, emptied, handlerItem, regVars, paneVars,
                   selVars, undoVars, archiveAwait, menu>>

useStateEffect(c) ==
    /\ ~InArray(stateReceivers, Wrapper(c)) /\ [hook |-> "useState", of |-> c] \notin cleanedUp
    /\ stateReceivers' = Append(stateReceivers, Wrapper(c))
    /\ UNCHANGED <<settingsNotifiers, cleanedUp>>
    /\ op' = "useState"
    /\ hookFrame

useStateCleanup(c) ==
    /\ InArray(stateReceivers, Wrapper(c)) /\ [hook |-> "useState", of |-> c] \notin cleanedUp
    /\ stateReceivers' = useStateCleanupRemove(c)
    /\ cleanedUp' = cleanedUp \cup {[hook |-> "useState", of |-> c]}
    /\ UNCHANGED settingsNotifiers
    /\ op' = "useState:cleanup"
    /\ hookFrame

useSettingEffect(c, key) ==
    /\ \A k \in HookKeys : ~InArray(settingsNotifiers, Receiver(c, k))
    /\ [hook |-> "useSetting", of |-> c] \notin cleanedUp
    /\ settingsNotifiers' = Append(settingsNotifiers, Receiver(c, key))
    /\ UNCHANGED <<stateReceivers, cleanedUp>>
    /\ op' = "useSetting"
    /\ hookFrame

useSettingCleanup(c, key) ==
    /\ InArray(settingsNotifiers, Receiver(c, key)) /\ [hook |-> "useSetting", of |-> c] \notin cleanedUp
    /\ settingsNotifiers' = useSettingCleanupRemove(c, key)
    /\ cleanedUp' = cleanedUp \cup {[hook |-> "useSetting", of |-> c]}
    /\ UNCHANGED stateReceivers
    /\ op' = "useSetting:cleanup"
    /\ hookFrame

useStateHook == \E c \in Components : useStateEffect(c) \/ useStateCleanup(c)
useSettingHook == \E c \in Components, key \in HookKeys : useSettingEffect(c, key) \/ useSettingCleanup(c, key)

softRefresh ==
    /\ NotifyOnly("softRefresh")
    /\ UNCHANGED <<selVars, paneVars>>
    /\ paneFrame

HookTexts == {BoardText(<<Todo(<<Open("a")>>)>>, NoLists, DefaultSettings)}
InitHooks == InitWith(HookTexts, {NoSettings})
NextHooks ==
    \/ newBoard
    \/ useStateHook
    \/ useSettingHook
    \/ settingsChanged
    \/ softRefresh
    \/ forceRefresh
    \/ toggleArchive
SpecHooks == InitHooks /\ [][NextHooks]_vars

\* The functions the last operation invoked: every state receiver when it notified the
\* receivers, and the notifiers of the keys it notified.
InvokedState(c) == Len(delivered) > 0 /\ \E i \in 1..Len(stateReceivers) : stateReceivers[i].of = c
InvokedSetting(c) == \E i \in 1..Len(settingsNotifiers) :
                         settingsNotifiers[i].of = c /\ settingsNotifiers[i].key \in notified

\* C29: once the cleanup of a component's useState effect has run, no operation of the
\* manager invokes that component's state receiver again; and once the cleanup of its
\* useSetting effect has run, its settings listener is not invoked again.
C29_NoCallAfterCleanup ==
    \A c \in Components :
        /\ [hook |-> "useState", of |-> c] \in cleanedUp => ~InvokedState(c)
        /\ [hook |-> "useSetting", of |-> c] \in cleanedUp => ~InvokedSetting(c)

----
\* The detail pane's keydown effect. The effect installs handleKeyDown, a closure over
\* the item of the render in which the effect ran; its dependency list is
\* [item.id, onClose], so it runs again when another card is selected or when the
\* parent hands the pane a new onClose function, and not when the selected card's
\* content changes. The parent is outside src/: whether a render brings a new onClose
\* is a choice of the environment.
EffectsSettled == IF handlerItem = Null THEN TRUE ELSE handlerItem.id = selectedItemId

effectFrame ==
    /\ NoOutput /\ escaped' = FALSE
    /\ UNCHANGED <<mgrVars, globalSettings, suppliedSettings, emptied, stateReceivers, settingsNotifiers,
                   cleanedUp, regVars, paneVars, selVars, undoVars, archiveAwait, menu>>

keydownEffect ==
    /\ Gesture
    /\ getSelectedItem(state, selectedItemId) # Null
    /\ \E onCloseChanged \in BOOLEAN :
          /\ IF EffectsSettled /\ handlerItem # Null THEN onCloseChanged ELSE TRUE
          /\ handlerItem' = getSelectedItem(state, selectedItemId)
    /\ op' = "keydownEffect"
    /\ effectFrame

keydownCleanup ==
    /\ Defined(state)
    /\ getSelectedItem(state, selectedItemId) = Null
    /\ handlerItem # Null
    /\ handlerItem' = Null
    /\ op' = "keydownEffect:cleanup"
    /\ effectFrame

\* A card is selected from the board once the effects of the previous render have run.
selectCard == EffectsSettled /\ selectItem

\* Delete or Backspace in the detail pane: handleKeyDown with the item it captured.
handleKeyDown ==
    /\ Gesture
    /\ handlerItem # Null /\ EffectsSettled
    /\ getSelectedItem(state, selectedItemId) # Null
    /\ previousPaneMode = "null"
    /\ LET item == handlerItem
           location == LocationOf(state, item.id)
           m == setState(Mgr, DeleteById(state, item.id), TRUE)
       IN /\ lastDeletedBuffer' = [item |-> item, location |-> location]
          /\ deletedFromLane' = IF location.type = "lane" THEN state.children[location.laneIndex + 1].id ELSE "none"
          /\ deletedFromBoard' = state
          /\ Commit([m EXCEPT !.delivered = Append(@, m.state), !.compiledSeen = Append(@, m.compiledSettings),
                                    !.events = Append(@, "receiver")], "handleKeyDown")
    /\ closeDetail
    /\ UNCHANGED <<archiveAwait, menu>>
    /\ boardFrame

DetailTexts == {BoardText(<<Todo(<<Open("a"), Ticked("b")>>)>>,
                          [NoLists EXCEPT !["done"] = <<Ticked("c")>>], DefaultSettings)}
InitDetail == InitWith(DetailTexts, {NoSettings})
NextDetail ==
    \/ newBoard
    \/ selectCard
    \/ keydownEffect
    \/ keydownCleanup
    \/ updatePriority
    \/ handleKeyDown
    \/ restoreLastDeleted
SpecDetail == InitDetail /\ [][NextDetail]_vars

\* C30: when restoreLastDeleted is the very next operation after the detail pane's
\* Delete/Backspace handler deleted the selected card, the board after the restore is the
\* board from before the deletion: same lanes, virtual lists, card order, and the card
\* with the titleRaw it had when it was deleted, whatever edits came before.
C30_DeleteRestoreRoundTrip ==
    [][(op = "handleKeyDown" /\ lastDeletedBuffer # Null /\ op' = "restoreLastDeleted") =>
         state' = deletedFromBoard]_vars

----
\* Every card other than id sits in the same container at the same relative place in
\* both boards.
OthersInPlace(before, after, id) ==
    /\ Len(after.children) = Len(before.children)
    /\ \A i \in 1..Len(before.children) :
          WithoutId(after.children[i].children, id) = WithoutId(before.children[i].children, id)
    /\ \A n \in VirtualNames : WithoutId(after.data[n], id) = WithoutId(before.data[n], id)

\* C31: the Delegate entry of the item menu moves the card the menu was opened on: after
\* the click that card is the last of the delegated list and in no lane, and every other
\* card is where it was, whatever happened to the board while the menu was open.
C31_DelegateMovesMenuCard ==
    [][op' = "delegate" =>
         /\ Len(state'.data.delegated) >= 1
         /\ state'.data.delegated[Len(state'.data.delegated)].id = menu.item.id
         /\ ~InLane(state', menu.item.id)
         /\ OthersInPlace(state, state', menu.item.id)]_vars

----
\* The document changes on disk: the host hands every view of the file the new text
\* (KanbanView.setViewData, outside src/), then the manager re-parses it. The new text
\* may carry other lanes, other cards and another date format.
ExternalTexts ==
    {BoardText(<<Todo(<<Open("a")>>)>>, NoLists, DefaultSettings),
     BoardText(<<Complete(<<Ticked("b")>>)>>, [NoLists EXCEPT !["done"] = <<Ticked("c")>>],
               [DefaultSettings EXCEPT !["date-format"] = "DD/MM"]),
     BoardText(<<>>, [NoLists EXCEPT !["waiting"] = <<Open("d")>>],
               [DefaultSettings EXCEPT !["date-format"] = "DD/MM"]),
     MalformedText}

fileChanged ==
    /\ Registered
    /\ viewSet # {}
    /\ \E text \in ExternalTexts \ {viewData[getAView]} :
          viewData' = [v \in Views |-> IF v \in viewSet THEN text ELSE viewData[v]]
    /\ op' = "setViewData"
    /\ NoOutput /\ escaped' = FALSE
    /\ UNCHANGED <<state, compiledSettings, nextId, envVars, regVars, paneVars, selVars, undoVars,
                   archiveAwait, menu>>

InitReparse == InitWith(ExternalTexts, {NoSettings})
NextReparse ==
    \/ newBoard
    \/ fileChanged
    \/ reparseBoardFromMd
    \/ laneDeleted
SpecReparse == InitReparse /\ [][NextReparse]_vars

----
\* The operations that must not write. In SpecFrame the only operation named "setState"
\* is a transform that throws, i.e. the error-recording transition.
PaneOpNames ==
    UNION {{"open" \o n, "close" \o n, "toggle" \o n} :
              n \in {"Archive", "Done", "Delegated", "Recurring", "Proposals", "Waiting"}}
QuietOps == PaneOpNames \cup {"softRefresh"}
NoWriteOps == QuietOps \cup {"selectItem", "forceRefresh", "registerView", "newBoard",
                             "reparseBoardFromMd", "setState"}

FrameTexts == {BoardText(<<Todo(<<Open("a")>>)>>, NoLists, DefaultSettings)}
InitFrame == InitWith(FrameTexts, {NoSettings})
NextFrame ==
    \/ NextPane
    \/ softRefresh
    \/ forceRefresh
    \/ reparseBoardFromMd
    \/ transformThrows
    \/ laneDeleted
SpecFrame == InitFrame /\ [][NextFrame]_vars

\* C33: softRefresh, forceRefresh, selectItem, the open/close/toggle operations of the six
\* panes, newBoard, reparseBoardFromMd and the error-recording transition request no
\* write and change no view's data; softRefresh and the pane operations also leave the
\* board and compiledSettings as they were.
C33_OnlySavingOpsWrite ==
    [][op' \in NoWriteOps =>
         /\ written' = <<>>
         /\ Count(events', "write") = 0
         /\ viewData' = viewData
         /\ op' \in QuietOps => (state' = state /\ compiledSettings' = compiledSettings)]_vars
C33_Witness ==
    /\ op = "forceRefresh"
    /\ Defined(state)
    /\ state.data.errors = <<>>
    /\ viewSet # {}
    /\ delivered = <<state>>
    /\ written = <<>>
    /\ isDoneOpen

----
\* Cards whose titles carry inline annotations.
AnnotatedTitles ==
    {<<"a">> \o client \o notes \o priority \o dates :
        client \in {<<>>, <<" ", "[client::LMH]">>},
        notes \in {<<>>} \cup {<<" ", n>> : n \in NotesTokens},
        priority \in {<<>>, <<" ", "[priority::", Closing("high")>>},
        dates \in {<<>>, <<" ", "@{2024-01-01}">>, <<" ", "@{2024-01-01}", " ", "@{2024-02-02}">>}}
AnnotatedTexts == {BoardText(<<Todo(<<Card(t, FALSE, " ")>>)>>, NoLists, DefaultSettings) : t \in AnnotatedTitles}
InitAnnotated == InitWith(AnnotatedTexts, {NoSettings})
NextAnnotated ==
    \/ newBoard
    \/ selectItem
    \/ updatePriority
SpecAnnotated == InitAnnotated /\ [][NextAnnotated]_vars

Only(t, toks) == SelectSeq(t, LAMBDA tok : tok \in toks)
HasNotes(t) == Only(t, NotesTokens) # <<>>

\* C34: updatePriority in the detail pane changes only the priority annotation of the
\* selected card's titleRaw: the card's notes annotation, its client annotation and its
\* date stamps are in the new titleRaw with the values they had.
C34_PriorityKeepsAnnotations ==
    [][op' = "updatePriority" =>
         LET before == getSelectedItem(state, selectedItemId).titleRaw
             after == getSelectedItem(state', selectedItemId).titleRaw
         IN /\ HasNotes(after) = HasNotes(before)
            /\ getNotesFromTitle(after) = getNotesFromTitle(before)
            /\ Only(after, ClientTokens) = Only(before, ClientTokens)
            /\ Only(after, DateTokens) = Only(before, DateTokens)]_vars

----
\* Drill-down: a click on a card shown in overlay pane P (SidePaneItemCard). The handler
\* records P, calls close<P> and then selectItem(item.id); both calls notify the
\* receivers. The pane shows the cards of list P while P's flag is set.
handleCardClick ==
    /\ \E pane \in VirtualNames :
          /\ PaneFlag(pane)
          /\ \E i \in 1..Len(state.data[pane]) :
                /\ previousPaneMode' = pane
                /\ selectedItemId' = state.data[pane][i].id
          /\ isArchiveOpen' = FALSE
          /\ isDoneOpen' = (IF pane = "done" THEN FALSE ELSE isDoneOpen)
          /\ isDelegatedOpen' = (IF pane = "delegated" THEN FALSE ELSE isDelegatedOpen)
          /\ isRecurringOpen' = (IF pane = "recurring" THEN FALSE ELSE isRecurringOpen)
          /\ isProposalsOpen' = (IF pane = "proposals" THEN FALSE ELSE isProposalsOpen)
          /\ isWaitingOpen' = (IF pane = "waiting" THEN FALSE ELSE isWaitingOpen)
    /\ UNCHANGED mgrVars
    /\ delivered' = <<state, state>>
    /\ compiledSeen' = <<compiledSettings, compiledSettings>>
    /\ events' = <<"receiver", "receiver">>
    /\ written' = <<>> /\ escaped' = FALSE /\ notified' = {}
    /\ op' = "handleCardClick"
    /\ paneFrame

\* The detail view is closed (onClose, outside src/): the selection is cleared and the
\* recorded pane, if any, is shown again and forgotten.
detailClosed ==
    /\ selectedItemId # NoSelection
    /\ selectedItemId' = NoSelection
    /\ previousPaneMode' = "null"
    /\ isArchiveOpen' = (IF previousPaneMode = "archive" THEN TRUE ELSE isArchiveOpen)
    /\ isDoneOpen' = (IF previousPaneMode = "done" THEN TRUE ELSE isDoneOpen)
    /\ isDelegatedOpen' = (IF previousPaneMode = "delegated" THEN TRUE ELSE isDelegatedOpen)
    /\ isRecurringOpen' = (IF previousPaneMode = "recurring" THEN TRUE ELSE isRecurringOpen)
    /\ isProposalsOpen' = (IF previousPaneMode = "proposals" THEN TRUE ELSE isProposalsOpen)
    /\ isWaitingOpen' = (IF previousPaneMode = "waiting" THEN TRUE ELSE isWaitingOpen)
    /\ NotifyOnly("onClose")
    /\ paneFrame

DrillTexts == {BoardText(<<Todo(<<Open("a")>>)>>,
                         [NoLists EXCEPT !["done"] = <<Ticked("b")>>, !["recurring"] = <<Open("c")>>],
                         DefaultSettings)}
InitDrill == InitWith(DrillTexts, {NoSettings})
NextDrill ==
    \/ NextPane
    \/ handleCardClick
    \/ detailClosed
SpecDrill == InitDrill /\ [][NextDrill]_vars

\* C35: a click on a card inside overlay pane P ends in the detail state for that card:
\* the card is the selected one, all six overlay flags are false and previousPaneMode
\* is P.
C35_DrillDownEndsInDetail ==
    op = "handleCardClick" =>
        /\ getSelectedItem(state, selectedItemId) # Null
        /\ previousPaneMode \in VirtualNames
        /\ Found(state.data[previousPaneMode], selectedItemId)
        /\ \A n \in VirtualNames : ~PaneFlag(n)

\* C36: previousPaneMode is non-null only while the detail shown was entered from an
\* overlay's card: it is null after a card was selected from the board, after the
\* selection was cleared and after an overlay was opened.
C36_ReturnPaneOnlyDuringDrillDown ==
    [][(\/ op' = "selectItem" /\ InLane(state', selectedItemId')
        \/ selectedItemId' = NoSelection
        \/ \E n \in VirtualNames : op' \in TurnOnOps(n) /\ PaneFlag(n)') =>
          previousPaneMode' = "null"]_vars

\* ---------------------------------------------------------------------------
\* Toggle against open and close (StateManager.ts 503-686).

PaneSelection ==
    [flags |-> [n \in VirtualNames |-> PaneFlag(n)], selected |-> selectedItemId]

\* The panes open<Pane> turns off, as its body lists them.
OpenCloses(n) ==
    IF n = "archive" THEN {}
    ELSE IF n = "done" THEN {"archive"}
    ELSE IF n = "delegated" THEN {"archive", "done"}
    ELSE VirtualNames \ {n}

\* The pane and selection state open<Pane> leaves, from the current state.
OpenOutcome(n) ==
    [flags |-> [p \in VirtualNames |->
                    IF p = n THEN TRUE
                    ELSE IF p \in OpenCloses(n) THEN FALSE
                    ELSE PaneFlag(p)],
     selected |-> NoSelection]

\* The pane and selection state close<Pane> leaves, from the current state.
CloseOutcome(n) ==
    [flags |-> [p \in VirtualNames |-> IF p = n THEN FALSE ELSE PaneFlag(p)],
     selected |-> selectedItemId]

PaneOpName(verb, n) ==
    verb \o (IF n = "archive" THEN "Archive"
             ELSE IF n = "done" THEN "Done"
             ELSE IF n = "delegated" THEN "Delegated"
             ELSE IF n = "recurring" THEN "Recurring"
             ELSE IF n = "proposals" THEN "Proposals"
             ELSE "Waiting")

\* The outcome operators agree with the open<Pane> and close<Pane> actions.
OutcomesMatchActions ==
    [][\A n \in VirtualNames :
          /\ op' = PaneOpName("open", n) => PaneSelection' = OpenOutcome(n)
          /\ op' = PaneOpName("close", n) => PaneSelection' = CloseOutcome(n)]_vars

\* C37: for each of the six panes, toggle<Pane> from a state where the pane is closed
\* leaves the six flags and selectedItemId as open<Pane> would from that state, and
\* toggle<Pane> from a state where it is open leaves them as close<Pane> would.
C37_ToggleIsOpenOrClose ==
    [][\A n \in VirtualNames :
          op' = PaneOpName("toggle", n) =>
              PaneSelection' = (IF PaneFlag(n) THEN CloseOutcome(n) ELSE OpenOutcome(n))]_vars

\* ---------------------------------------------------------------------------
\* Editing the selected card in the detail pane (DetailPane.tsx 397-438).

RemoveClient(t) == SelectSeq(t, LAMBDA tok : tok \notin ClientTokens)
getClientFromTitle(t) ==
    IF \E i \in 1..Len(t) : t[i] \in ClientTokens THEN "LMH" ELSE "null"
\* Keyword detection over the title's words; PEP is the fallback.
autoDetectClient(t) ==
    IF \E i \in 1..Len(t) : t[i] = "let me help" THEN "LMH"
    ELSE IF \E i \in 1..Len(t) : t[i] = "tribeca" THEN "TRB"
    ELSE "PEP"
updateClientInTitle(t, client) ==
    LET cleaned == trim(RemoveClient(t))
    IN IF client = autoDetectClient(t) THEN cleaned
       ELSE cleaned \o <<" ", "[client::" \o client \o "]">>

\* The titleRaw updateTitle hands to updateContent.
titleEdit(item, newTitle) ==
    updateNotesInTitle(updatePriorityInTitle(newTitle, getPriorityFromTitle(item.titleRaw)),
                       getNotesFromTitle(item.titleRaw))

\* The titleRaw updateNotes hands to updateContent.
notesEdit(item, newNotes) ==
    LET withNotes == updateNotesInTitle(updatePriorityInTitle(displayTitle(item),
                                                              getPriorityFromTitle(item.titleRaw)),
                                        newNotes)
        explicitClient == getClientFromTitle(item.titleRaw)
    IN IF explicitClient # "null" THEN updateClientInTitle(withNotes, explicitClient)
       ELSE withNotes

\* Longest titleRaw, in tokens, on which the model still edits the notes.
MaxEditLen == 8
TypedTitles == {<<"z">>}
TypedNotes == {"", "n"}

updateTitle ==
    /\ Gesture
    /\ getSelectedItem(state, selectedItemId) # Null
    /\ \E newTitle \in TypedTitles :
          LET item == getSelectedItem(state, selectedItemId)
          IN Commit(setState(Mgr, updateContent(state, item.id, titleEdit(item, newTitle)), TRUE),
                    "updateTitle")
    /\ UNCHANGED <<selVars, undoVars, archiveAwait, menu>>
    /\ boardFrame

updateNotes ==
    /\ Gesture
    /\ getSelectedItem(state, selectedItemId) # Null
    /\ Len(getSelectedItem(state, selectedItemId).titleRaw) <= MaxEditLen
    /\ \E newNotes \in TypedNotes :
          LET item == getSelectedItem(state, selectedItemId)
          IN Commit(setState(Mgr, updateContent(state, item.id, notesEdit(item, newNotes)), TRUE),
                    "updateNotes")
    /\ UNCHANGED <<selVars, undoVars, archiveAwait, menu>>
    /\ boardFrame

EditTexts ==
    {BoardText(<<Todo(<<Card(<<"a">> \o ann, FALSE, " ")>>)>>,
               [NoLists EXCEPT !["done"] = <<Ticked("b")>>, !["waiting"] = <<Open("c")>>],
               DefaultSettings) :
        ann \in {<<>>, <<" ", "[client::LMH]">>, <<" ", "[notes::n]">>}}
InitEdit == InitWith(EditTexts, {NoSettings})
NextEdit ==
    \/ newBoard
    \/ selectItem
    \/ updateTitle
    \/ updatePriority
    \/ updateNotes
SpecEdit == InitEdit /\ [][NextEdit]_vars

\* The titleRaw values an edit of the given kind can hand to updateContent for the item.
EditResults(name, item) ==
    IF name = "updateTitle" THEN {titleEdit(item, t) : t \in TypedTitles}
    ELSE IF name = "updatePriority" THEN {priorityEdit(item, p) : p \in Priorities}
    ELSE {notesEdit(item, n) : n \in TypedNotes}

TitleOf(st, id) == getSelectedItem(st, id).titleRaw

\* C38: an edit of the title, priority or notes in the detail pane replaces the titleRaw
\* of the card getSelectedItem returns, in a lane or in a virtual list, with the text
\* the edit built, and changes the titleRaw of no other card.
C38_EditReachesSelectedCard ==
    [][op' \in {"updateTitle", "updatePriority", "updateNotes"} =>
         /\ ItemIds(state') = ItemIds(state)
         /\ TitleOf(state', selectedItemId) \in
                EditResults(op', getSelectedItem(state, selectedItemId))
         /\ \A id \in ItemIds(state) \ {selectedItemId} :
                TitleOf(state', id) = TitleOf(state, id)]_vars

\* ---------------------------------------------------------------------------
\* The selection against the live board (StateManager.ts 457-500).

\* C39: whenever selectedItemId is non-null getSelectedItem returns a card, through
\* every setState mutation, re-parse, archive, delete and restore operation.
C39_SelectionNeverDangles ==
    selectedItemId # NoSelection => getSelectedItem(state, selectedItemId) # Null

\* ---------------------------------------------------------------------------
\* Persisting setState calls with one or two views attached (StateManager.ts 119-134,
\* 158-201).

\* The settings dialog of a rendered view: setState(board with edited settings), saving.
settingsSaved ==
    /\ Gesture
    /\ viewSet # {}
    /\ \E settings \in LocalEdits(state) :
          /\ shouldRefreshBoard(state.data.settings, settings) =>
                nextId + IdsNeeded(viewData[getAView]) <= MaxIds
          /\ Commit(setState(Mgr, WithSettings(state, settings), TRUE), "setSettingsSaved")
    /\ UNCHANGED <<selVars, undoVars, archiveAwait, menu>>
    /\ boardFrame

WriteTexts == {BoardText(<<Todo(<<Open("a")>>), Complete(<<>>)>>, NoLists, DefaultSettings)}
InitWrite == InitWith(WriteTexts, {NoSettings})
NextWrite ==
    \/ newBoard
    \/ viewOpened
    \/ laneDeleted
    \/ laneMoved
    \/ settingsSaved
    \/ transformThrows
SpecWrite == InitWrite /\ [][NextWrite]_vars

PersistOps == {"deleteLane", "moveLane", "setSettingsSaved"}

\* C40: a setState call with persist=true that completes without error and leaves a
\* board with no errors, with at least one view registered, requests exactly one write,
\* through a registered view, of the serialization of the board it leaves, and sets the
\* data of every registered view to that text.
C40_PersistWritesOnceToAllViews ==
    [][(op' \in PersistOps /\ ~escaped' /\ Len(state'.data.errors) = 0 /\ viewSet # {}) =>
          /\ Len(written') = 1
          /\ written'[1].view \in viewSet
          /\ written'[1].text = boardToMd(state')
          /\ \A v \in viewSet : viewData'[v] = boardToMd(state')]_vars
C40_Witness ==
    /\ op = "deleteLane"
    /\ viewSet = Views
    /\ Len(state.data.errors) = 0
    /\ Len(written) = 1
    /\ \A v \in Views : viewData[v] = written[1].text

====
